---- MODULE Spec2Model ----
(***************************************************************************)
(* Model of the Linky content script (src/content.js): detection of chat   *)
(* input fields, the per-field pipeline run of generateAndInsertMessage,   *)
(* the draft generator, the classifier and the DOM injector.               *)
(*                                                                         *)
(* Text is a sequence of chunks (strings).  The chunks "<p>", "</p>" and    *)
(* "<br>" are markup, " " and "NL" (a newline) are white space, "<", ">"    *)
(* and "&" are the characters the HTML serialisation escapes.              *)
(***************************************************************************)
EXTENDS Integers, Sequences, FiniteSets, TLC

\* ------------------------------------------------------------------ bounds
MaxStartTimers == 2
MaxRunsPerField == 2

\* --------------------------------------------------------------- constants
Fields == {1}

\* ------------------------------------------------------------ text helpers
RECURSIVE SeqMap(_, _)
SeqMap(F(_), s) == IF s = <<>> THEN <<>> ELSE F(Head(s)) \o SeqMap(F, Tail(s))

IsSpace(c) == c \in {" ", "NL"}
IsTag(c) == c \in {"<p>", "</p>", "<br>"}

RECURSIVE TrimLeft(_)
TrimLeft(s) == IF s # <<>> /\ IsSpace(Head(s)) THEN TrimLeft(Tail(s)) ELSE s

RECURSIVE TrimRight(_)
TrimRight(s) ==
  IF s # <<>> /\ IsSpace(s[Len(s)]) THEN TrimRight(SubSeq(s, 1, Len(s) - 1)) ELSE s

\* String.prototype.trim
Trim(s) == TrimRight(TrimLeft(s))

\* div.textContent = text; div.innerHTML  (the serialisation escapes <, >, &)
EscapeChunk(c) ==
  CASE c = "<" -> <<"&lt;">>
    [] c = ">" -> <<"&gt;">>
    [] c = "&" -> <<"&amp;">>
    [] OTHER -> <<c>>
escapeHtml(text) == SeqMap(EscapeChunk, text)

\* escapedMessage.replace(/\n/g, "<br>")
NlToBr(c) == IF c = "NL" THEN <<"<br>">> ELSE <<c>>

\* `<p>${escapedMessage.replace(/\n/g, "<br>")}</p>`
HtmlContent(message) == <<"<p>">> \o SeqMap(NlToBr, escapeHtml(message)) \o <<"</p>">>

\* a perturbation that changes nothing
HtmlWithSpace_Unchanged(html) == html

\* htmlContent.replace("</p>", " </p>"): the first "</p>" gets a space before it
RECURSIVE HtmlWithSpace(_)
HtmlWithSpace(html) ==
  IF html = <<>> THEN <<>>
  ELSE IF Head(html) = "</p>" THEN <<" ", "</p>">> \o Tail(html)
  ELSE <<Head(html)>> \o HtmlWithSpace(Tail(html))

\* element.textContent of an element whose innerHTML is html
TextChunk(c) ==
  CASE IsTag(c) -> <<>>
    [] c = "&lt;" -> <<"<">>
    [] c = "&gt;" -> <<">">>
    [] c = "&amp;" -> <<"&">>
    [] OTHER -> <<c>>
TextContent(html) == SeqMap(TextChunk, html)

\* the "isEmpty" test of generateAndInsertMessage and of the start timer
IsEmptyContent(html) ==
  \/ Trim(TextContent(html)) = <<>>
  \/ Trim(html) = <<>>
  \/ Trim(html) = <<"<p>", "<br>", "</p>">>
  \/ Trim(html) = <<"<br>">>

\* `[Error: ${errorMessage}]`
FullErrorMessage(errorMessage) == <<"[Error: ">> \o errorMessage \o <<"]">>


\* ------------------------------------------------------------ JS values
\* Values that may be absent are records tagged by .t
Undef == [t |-> "undefined"]
NullV == [t |-> "null"]
Str(s) == [t |-> "string", s |-> s]
Arr(items) == [t |-> "array", items |-> items]
\* JS truthiness of a tagged value ("" is falsy, arrays and objects are truthy)
Truthy(v) == v.t \notin {"undefined", "null"} /\ (v.t = "string" => v.s # <<>>)

\* an async function's result: a value or a thrown error (.message is text)
Return(v) == [thrown |-> FALSE, value |-> v]
Throw(m) == [thrown |-> TRUE, message |-> m]

\* --------------------------------------------------------------- credentials
None == "none"
Null == "null"
Placeholder == "placeholder"
LocalKey == "sk-local"
StoredKey == "sk-stored"

Empty == ""

\* a global of secrets.js that is set (truthy) and is not the placeholder text
Provisioned(local) == local \notin {None, Empty, Placeholder}

\* result.x || null
StoredOrNull(stored) == IF stored \in {None, Empty} THEN Null ELSE stored

\* getOpenAIApiKey: the hand-provisioned global first, then the settings store
getOpenAIApiKey(local, stored) ==
  IF Provisioned(local) THEN local ELSE StoredOrNull(stored)

\* getLangCacheCredentials: globals only, every part set and not a placeholder
CredPart == {None, Placeholder, "set"}
getLangCacheCredentials(c) ==
  /\ Provisioned(c.url)
  /\ Provisioned(c.apiKey)
  /\ Provisioned(c.id)

\* ------------------------------------------------------ endpoint responses
\* A completion-endpoint response as fetch delivers it:
\*   reject     fetch rejects (transport error)
\*   status     a non-2xx status
\*   badjson    response.json() rejects
\*   nochoices  JSON without choices[0].message.content
\*   nonstring  content that is not a string
\*   content    content is the text in .content
DraftDirect == <<"Hi", "NL", "there">>
DraftCache == <<"Hello", " ", "&", " ", "welcome">>
RawContents == {<<>>, <<" ", "NL">>, <<" ">> \o DraftDirect \o <<"NL">>, DraftCache}
FetchResponses ==
  {[kind |-> "reject"], [kind |-> "status"], [kind |-> "badjson"],
   [kind |-> "nochoices"], [kind |-> "nonstring"]}
    \cup {[kind |-> "content", content |-> c] : c \in RawContents}

\* A relay answer as the sendMessage callback sees it:
\*   lastError  chrome.runtime.lastError is set
\*   error      {error}
\*   invalid    {data} without a non-empty choices array
\*   data       {data} whose choices[0] is as in .choice (a completion body)
RelayResponses ==
  {[kind |-> "lastError"], [kind |-> "error"], [kind |-> "invalid"]}
    \cup {[kind |-> "data", choice |-> [kind |-> "nochoices"]],
          [kind |-> "data", choice |-> [kind |-> "nonstring"]]}
    \cup {[kind |-> "data", choice |-> [kind |-> "content", content |-> c]] : c \in RawContents}

\* error messages (one chunk each)
ErrNoKey == <<"OpenAI API key not available">>
ErrApi == <<"OpenAI API error: 500 - ">>
ErrEmpty == <<"Empty response from OpenAI">>
ErrFetch == <<"Failed to fetch">>
ErrJson == <<"Unexpected token < in JSON">>
ErrType == <<"TypeError">>
ErrRelay == <<"LangCache message error">>
ErrRelayApi == <<"LangCache API error">>
ErrRelayFormat == <<"Invalid LangCache response format: missing choices">>
ErrExtract == <<"Could not extract recipient information. Please ensure you are on a LinkedIn chat page and the page has fully loaded.">>

\* data.choices?.[0]?.message?.content?.trim()
ChoiceText(r) ==
  CASE r.kind = "content" -> Return(Str(Trim(r.content)))
    [] r.kind = "nochoices" -> Return(Undef)
    [] r.kind = "nonstring" -> Throw(ErrType)

\* callLangCache: the promise resolves with the relay's data or rejects
callLangCache(resp) ==
  CASE resp.kind = "lastError" -> Throw(ErrRelay)
    [] resp.kind = "error" -> Throw(ErrRelayApi)
    [] resp.kind = "invalid" -> Throw(ErrRelayFormat)
    [] resp.kind = "data" -> Return(resp.choice)

\* --------------------------------------------------------------- chat info
\* ChatHistoryInfo as JSON.parse delivers it: .messages is an array, absent,
\* or a value that is not an array (a non-empty string)
ChatMessage == [sender |-> "recipient", text |-> <<"hello">>]
ChatObj(m, n) == [t |-> "object", messages |-> m, isNewConversation |-> n]
ChatInfos ==
  {ChatObj(Arr(<<ChatMessage>>), FALSE),
   ChatObj(Str(<<"hello">>), FALSE)}
AllChatInfos == ChatInfos \cup {ChatObj(Arr(<<>>), TRUE), ChatObj(Undef, FALSE)}

\* chatHistoryInfo?.messages || []
MessagesOf(info) ==
  IF info.t # "object" THEN Arr(<<>>)
  ELSE IF Truthy(info.messages) THEN info.messages ELSE Arr(<<>>)

\* messages.length > 0 followed by messages.map(...): a TypeError on a
\* non-empty value that is not an array
MapThrows(messages) == messages.t = "string" /\ Len(messages.s) > 0

\* parsed is what JSON.parse makes of the content: an element of AllChatInfos,
\* NullV for the JSON text "null", or SyntaxErr when parsing throws
SyntaxErr == [t |-> "syntaxError"]
ParsedContents == AllChatInfos \cup {NullV, SyntaxErr}

\* extractChatHistoryInfo that lets a transport error escape
extractChatHistoryInfo_Throws(key, resp, parsed) ==
  IF key = Null THEN Return(NullV)
  ELSE IF resp.kind = "reject" THEN Throw(ErrFetch)
  ELSE IF resp.kind \in {"status", "badjson"} THEN Return(NullV)
  ELSE IF resp.kind \in {"nochoices", "nonstring"} THEN Return(ChatObj(Undef, FALSE))
  ELSE IF parsed = SyntaxErr THEN Return(NullV)
  ELSE Return(parsed)

\* extractChatHistoryInfo: null on a missing key, a transport error, a non-2xx
\* status or content that does not parse; otherwise the parsed value
extractChatHistoryInfo(key, resp, parsed) ==
  IF key = Null THEN Return(NullV)
  ELSE IF resp.kind \in {"reject", "status", "badjson"} THEN Return(NullV)
  ELSE IF resp.kind \in {"nochoices", "nonstring"} THEN Return(ChatObj(Undef, FALSE))
  ELSE IF parsed = SyntaxErr THEN Return(NullV)
  ELSE Return(parsed)

\* the answers a pipeline run draws from: one text per endpoint
JsonBody == [kind |-> "content", content |-> <<"{}">>]
NoContent == {r \in FetchResponses : r.kind # "content"}
DirectAnswers ==
  {[kind |-> "reject"], [kind |-> "nochoices"],
   [kind |-> "content", content |-> <<" ">> \o DraftDirect \o <<"NL">>]}
RelayAnswers ==
  {[kind |-> "error"],
   [kind |-> "data", choice |-> [kind |-> "content", content |-> <<>>]],
   [kind |-> "data", choice |-> [kind |-> "content", content |-> DraftCache]]}
SummarizerAnswers ==
  {<<r, NullV>> : r \in {[kind |-> "reject"], [kind |-> "status"], [kind |-> "badjson"]}}
    \cup {<<JsonBody, p>> : p \in {SyntaxErr} \cup ChatInfos}

\* -------------------------------------------------------------- classifier
RecruiterInbound == <<"R","e","c","r","u","i","t","e","r"," ","i","n","b","o","u","n","d">>
ColleagueFriend == <<"C","o","l","l","e","a","g","u","e","/","f","r","i","e","n","d">>
InboundAdviceRequest == <<"I","n","b","o","u","n","d"," ","a","d","v","i","c","e"," ","r","e","q","u","e","s","t">>
InboundMeetingRequest == <<"I","n","b","o","u","n","d"," ","m","e","e","t","i","n","g"," ","r","e","q","u","e","s","t">>
DEFAULT_CATEGORIES ==
  <<RecruiterInbound, ColleagueFriend, InboundAdviceRequest, InboundMeetingRequest>>

\* String.prototype.toLowerCase on the letters the model uses
LowerChar(c) ==
  CASE c = "R" -> "r" [] c = "C" -> "c" [] c = "I" -> "i" [] c = "S" -> "s"
    [] OTHER -> c
LowerChunk(c) == <<LowerChar(c)>>
toLowerCase(s) == SeqMap(LowerChunk, s)

\* String.prototype.includes
includes(s, sub) ==
  \E i \in 0..(Len(s) - Len(sub)) : SubSeq(s, i + 1, i + Len(sub)) = sub

\* categories.find(cat => cat.toLowerCase() === category?.toLowerCase()
\*                     || category?.toLowerCase().includes(cat.toLowerCase()))
CatMatches(cat, category) ==
  /\ category.t = "string"
  /\ \/ toLowerCase(cat) = toLowerCase(category.s)
     \/ includes(toLowerCase(category.s), toLowerCase(cat))

RECURSIVE find(_, _)
find(categories, category) ==
  IF categories = <<>> THEN Undef
  ELSE IF CatMatches(Head(categories), category) THEN Str(Head(categories))
  ELSE find(Tail(categories), category)

\* validCategory = categories.find(...) || categories[0]
ValidCategory(categories, category) ==
  IF Truthy(find(categories, category)) THEN find(categories, category)
  ELSE IF categories = <<>> THEN Undef ELSE Str(categories[1])

\* result.categories || [defaults]   (an empty array is truthy)
CategoriesInUse(stored) == IF Truthy(stored) THEN stored ELSE Arr(DEFAULT_CATEGORIES)

\* categorizeInteraction that validates the body of a non-2xx answer
categorizeInteraction_ReadsErrorBody(key, stored, chatHistoryInfo, resp) ==
  IF key = Null THEN Return(Str(RecruiterInbound))
  ELSE IF CategoriesInUse(stored).t # "array" THEN Return(Str(RecruiterInbound))
  ELSE IF MapThrows(MessagesOf(chatHistoryInfo)) THEN Return(Str(RecruiterInbound))
  ELSE IF resp.kind \in {"reject", "badjson"} THEN Return(Str(RecruiterInbound))
  ELSE IF resp.kind = "status"
       THEN Return(ValidCategory(CategoriesInUse(stored).items, Undef))
  ELSE IF ChoiceText(resp).thrown THEN Return(Str(RecruiterInbound))
  ELSE Return(ValidCategory(CategoriesInUse(stored).items, ChoiceText(resp).value))

\* categorizeInteraction: the value the promise resolves with
categorizeInteraction(key, stored, chatHistoryInfo, resp) ==
  IF key = Null THEN Return(Str(RecruiterInbound))
  ELSE IF CategoriesInUse(stored).t # "array" THEN Return(Str(RecruiterInbound))
  ELSE IF MapThrows(MessagesOf(chatHistoryInfo)) THEN Return(Str(RecruiterInbound))
  ELSE IF resp.kind \in {"reject", "status", "badjson"} THEN Return(Str(RecruiterInbound))
  ELSE IF ChoiceText(resp).thrown THEN Return(Str(RecruiterInbound))
  ELSE Return(ValidCategory(CategoriesInUse(stored).items, ChoiceText(resp).value))

\* --------------------------------------------------------------- generator
\* building the prompt: chatHistoryInfo?.isNewConversation, else messages.map
PromptThrows(chatHistoryInfo) ==
  /\ ~(chatHistoryInfo.t = "object" /\ chatHistoryInfo.isNewConversation)
  /\ MapThrows(MessagesOf(chatHistoryInfo))

\* CachePath whose catch rethrows the relay's error
CachePath_Rethrows(relayResp) ==
  IF callLangCache(relayResp).thrown THEN callLangCache(relayResp)
  ELSE IF ChoiceText(callLangCache(relayResp).value).thrown THEN Return(Undef)
  ELSE Return(ChoiceText(callLangCache(relayResp).value).value)

\* the inner try around callLangCache: it yields the message, or Undef when the
\* relay call or the reading of its data throws (the catch falls through)
CachePath(relayResp) ==
  IF callLangCache(relayResp).thrown THEN Return(Undef)
  ELSE IF ChoiceText(callLangCache(relayResp).value).thrown THEN Return(Undef)
  ELSE Return(ChoiceText(callLangCache(relayResp).value).value)

\* DirectPath that returns a blank completion instead of throwing
DirectPath_ReturnsBlank(resp) ==
  CASE resp.kind = "reject" -> Throw(ErrFetch)
    [] resp.kind = "status" -> Throw(ErrApi)
    [] resp.kind = "badjson" -> Throw(ErrJson)
    [] OTHER ->
         IF ChoiceText(resp).thrown THEN ChoiceText(resp)
         ELSE IF Truthy(ChoiceText(resp).value) THEN ChoiceText(resp)
         ELSE Return(Str(<<>>))

\* the direct completion call and the reading of its response
DirectPath(resp) ==
  CASE resp.kind = "reject" -> Throw(ErrFetch)
    [] resp.kind = "status" -> Throw(ErrApi)
    [] resp.kind = "badjson" -> Throw(ErrJson)
    [] OTHER ->
         IF ChoiceText(resp).thrown THEN ChoiceText(resp)
         ELSE IF Truthy(ChoiceText(resp).value) THEN ChoiceText(resp)
         ELSE Throw(ErrEmpty)

\* generateMessageDraft: the result, given the answers of the two endpoints
generateMessageDraft(key, chatHistoryInfo, creds, relayResp, directResp) ==
  IF key = Null THEN Throw(ErrNoKey)
  ELSE IF PromptThrows(chatHistoryInfo) THEN Throw(ErrType)
  ELSE IF getLangCacheCredentials(creds) /\ CachePath(relayResp).thrown
       THEN CachePath(relayResp)
  ELSE IF getLangCacheCredentials(creds) /\ Truthy(CachePath(relayResp).value)
       THEN CachePath(relayResp)
  ELSE DirectPath(directResp)

\* ---------------------------------------------------------------- research
\* what researchRecipient does when called: it is not loaded, it throws, it
\* returns an object carrying an error, or it returns search results
ResearchBehaviours ==
  {[kind |-> "unavailable"], [kind |-> "throws"], [kind |-> "error"], [kind |-> "results"]}
NoRecipient == "none"
ResearchError == [t |-> "object", error |-> TRUE]
ResearchFound == [t |-> "object", error |-> FALSE]

\* performRecipientResearch: extracts the recipient again, null when there is
\* none, when research.js is not loaded or when researchRecipient throws
performRecipientResearch(recipientInfo, research) ==
  IF recipientInfo = NoRecipient THEN Return(NullV)
  ELSE IF research.kind \in {"unavailable", "throws"} THEN Return(NullV)
  ELSE IF research.kind = "error" THEN Return(ResearchError)
  ELSE Return(ResearchFound)

\* ================================================================== state
VARIABLES
  dom,                          \* per field: "detached", "hidden" or "visible"
  content,                      \* per field: its innerHTML
  processedInputs,              \* the WeakSet processedInputs
  messageGenerationInProgress,  \* the WeakSet messageGenerationInProgress
  startTimers,                  \* per field: pending 500 ms start timers
  runs,                         \* per field: the pipeline runs in flight
  insertTimers,                 \* per field: pending perturb / restore timers
  chatCheckTimeout,             \* handle: the timer the variable chatCheckTimeout
                                \* names, pending: the scan timers not yet fired,
                                \* cancelled: those cleared in the last burst
  localKey,                     \* self.OPENAI_API_KEY
  storedKey,                    \* openaiApiKey in chrome.storage.sync
  langCacheCreds,               \* self.LANGCACHE_URL / _API_KEY / _ID
  storedCategories,             \* categories in chrome.storage.sync
  domOps,                       \* per field: DOM operations the script applied
  writes,                       \* per field: the values insertMessage has set innerHTML to, in
                                \* order, each with whether an input event followed it
  outcome,                      \* per field: how its last ended run ended
  refused,                      \* fields on which generateAndInsertMessage returned
                                \* at once because they were marked processed
  gen,                          \* one call of generateMessageDraft
  cat,                          \* one call of categorizeInteraction
  res,                          \* one call of researchRecipient
  langcache_entries,            \* langcache_entries in chrome.storage.local
  cacheCall,                    \* one call of cachedOpenAICall
  now,                          \* Date.now()
  evicted,                      \* the entries the last storeInRedis deleted
  search,                       \* one call of semanticSearch
  cos,                          \* one call of cosineSimilarity
  messageHistory,               \* messageHistory in chrome.storage.local
  credsCall,                    \* one call of a credentials getter
  page,                         \* the conversation view of the document
  ext,                          \* one call of an extractor
  categoryPreferences,          \* categoryPreferences in chrome.storage.sync
  popup,                        \* the settings popup: its category array, its cards
  contentRead,                  \* one read of the settings by the content script
  relay,                        \* one callLangCache request and the relay's work on it
  conversation                  \* the partner of the conversation the selectors of
                                \* extractRecipientInfo match first in the document

\* the message relay of the background worker, the conversation that is open
more == <<relay, conversation>>
\* the calls of single functions that are followed on their own
single == <<credsCall, page, ext, categoryPreferences, popup, contentRead, more>>
orchVars ==
  <<dom, content, processedInputs, messageGenerationInProgress, startTimers,
    runs, insertTimers, chatCheckTimeout, localKey, storedKey, langCacheCreds,
    storedCategories, domOps, writes, outcome, refused, single>>
lib == <<res, langcache_entries, cacheCall, now, evicted, search, cos, messageHistory>>
vars == <<orchVars, gen, cat, lib>>

DomStates == {"detached", "hidden", "visible"}
UserContents == {<<>>, <<"<p>", "<br>", "</p>">>, <<"<p>", "typed", "</p>">>}
\* the partners of the conversations a document can hold, in document order;
\* the form of conversation k holds field k
Partners == <<"Jane Doe", "John Roe">>
Recipients == {Partners[k] : k \in DOMAIN Partners}
\* document.querySelector(selector): the first match in document order
FirstPartner == Partners[1]
AllSet == [url |-> "set", apiKey |-> "set", id |-> "set"]
RetryDelays == <<1000, 2000>>
\* detectAndInsertChatMessages runs twice while the script is loaded
StartupScans == 2
\* setTimeout(..., 1000) of the observer, in ms
Debounce == 1000
\* let chatCheckTimeout = null, no timer set; a timer is named by the time it is due
NoTimer == [handle |-> {}, pending |-> {}, cancelled |-> {}]
NoOutcome == [ended |-> FALSE, inserted |-> FALSE, failed |-> FALSE, saved |-> FALSE]

GenIdle == [pc |-> "idle"]
CatIdle == [pc |-> "idle"]
ResIdle == [pc |-> "idle"]
CacheIdle == [pc |-> "idle"]
CosIdle == [pc |-> "idle"]
SearchIdle == [pc |-> "idle"]
CredsIdle == [pc |-> "idle"]
ExtIdle == [pc |-> "idle"]
ReadIdle == [pc |-> "idle"]
RelayIdle == [pc |-> "idle"]
\* the popup is not open
PopupClosed == [open |-> FALSE]
NoElement == [kind |-> "none"]
\* a document with no conversation view
BlankPage ==
  [names |-> <<NoElement, NoElement, NoElement>>, form |-> FALSE, headings |-> <<>>,
   above |-> <<>>, byline |-> NoElement, chat |-> NoElement]

\* the state once the script is loaded: the two startup scans have set their
\* start timers for the fields that were visible
InitOrch ==
  /\ dom \in [Fields -> DomStates]
  /\ content = [f \in Fields |-> <<>>]
  /\ processedInputs = {}
  /\ messageGenerationInProgress = {}
  /\ startTimers = [f \in Fields |-> IF dom[f] = "visible" THEN StartupScans ELSE 0]
  /\ runs = [f \in Fields |-> <<>>]
  /\ insertTimers = [f \in Fields |-> {}]
  /\ chatCheckTimeout = NoTimer
  /\ localKey = None
  /\ storedKey = StoredKey
  /\ langCacheCreds = AllSet
  /\ storedCategories \in {Undef, Arr(<<>>)}
  /\ domOps = [f \in Fields |-> {}]
  /\ writes = [f \in Fields |-> <<>>]
  /\ outcome = [f \in Fields |-> NoOutcome]
  /\ refused = {}

InitLib ==
  /\ res = ResIdle
  /\ langcache_entries = <<>>
  /\ cacheCall = CacheIdle
  /\ now = 0
  /\ evicted = {}
  /\ search = SearchIdle
  /\ cos = CosIdle
  /\ messageHistory = Undef
  /\ credsCall = CredsIdle
  /\ ext = ExtIdle
  /\ categoryPreferences = Undef
  /\ popup = PopupClosed
  /\ contentRead = ReadIdle
  /\ relay = RelayIdle
  /\ conversation = FirstPartner

Init == InitOrch /\ gen = GenIdle /\ cat = CatIdle /\ InitLib /\ page = BlankPage

\* ============================================================= environment
markers == <<processedInputs, messageGenerationInProgress>>
timers == <<startTimers, insertTimers, chatCheckTimeout>>
config == <<localKey, storedKey, langCacheCreds, storedCategories>>
pure == <<gen, cat, lib, single>>
prefs == <<categoryPreferences, popup, contentRead>>

\* the observer callback without clearTimeout
ScheduleScan_NoClear(timeout, time) ==
  [handle |-> {time + Debounce}, pending |-> timeout.pending \cup {time + Debounce},
   cancelled |-> timeout.cancelled]

\* the body of the observer callback at the given time: clearTimeout of the
\* timer the variable names (nothing when it has fired), a new timer due
\* Debounce later, its handle kept in the variable
ScheduleScan(timeout, time) ==
  [handle |-> {time + Debounce},
   pending |-> (timeout.pending \ timeout.handle) \cup {time + Debounce},
   cancelled |-> IF timeout.pending \cap timeout.handle = {} THEN {}
                 ELSE timeout.cancelled \cup (timeout.handle \ {time + Debounce})]

\* an observer registered for attributes only
Observed_AttributesOnly(from, to) == from # "detached" /\ to # "detached"

\* the observer is registered for { subtree: true, childList: true }: adding
\* or removing a node is reported to it, a change of style or class is not
Observed(from, to) == from = "detached" \/ to = "detached"

\* the host page attaches, detaches, hides or shows a field; when nodes were
\* added or removed the observer callback runs before any other task
DomChange(f) ==
  /\ \E d \in DomStates \ {dom[f]} :
       /\ dom' = [dom EXCEPT ![f] = d]
       /\ chatCheckTimeout' = IF Observed(dom[f], d)
                               THEN ScheduleScan(chatCheckTimeout, now)
                               ELSE chatCheckTimeout
  /\ UNCHANGED <<content, markers, startTimers, insertTimers, runs, config, domOps, writes,
                 outcome, pure, refused>>

\* the user (or the host page) types into a field or clears it
UserEdit(f) ==
  /\ \E c \in UserContents \ {content[f]} : content' = [content EXCEPT ![f] = c]
  /\ UNCHANGED <<dom, markers, timers, runs, config, domOps, writes, outcome, pure, refused>>

\* what extractRecipientInfo() can return now, whatever field the run is for:
\* the partner its document-wide selectors match first, or null while the
\* view is not complete
Extractable == {conversation, NoRecipient}

\* the user opens another conversation: the page puts its partner in the place
\* of the one shown
SwitchConversation ==
  /\ \E partner \in Recipients \ {conversation} : conversation' = partner
  /\ UNCHANGED <<dom, content, markers, timers, runs, config, domOps, writes, outcome,
                 refused, gen, cat, lib, credsCall, page, ext, prefs, relay>>

\* the popup saves or clears the completion-provider key
SettingsChange ==
  /\ storedKey' = IF storedKey = None THEN StoredKey ELSE None
  /\ UNCHANGED <<dom, content, markers, timers, runs, localKey, langCacheCreds,
                 storedCategories, domOps, writes, outcome, pure, refused>>

\* ================================================================ detection
\* findChatInputFields: connected fields in a form with a send control that
\* are not marked processed
findChatInputFields == {f \in Fields : dom[f] # "detached" /\ f \notin processedInputs}

\* the test detectAndInsertChatMessages applies before it sets a start timer
ScanGuard(f) ==
  /\ dom[f] = "visible"
  /\ f \notin processedInputs
  /\ f \notin messageGenerationInProgress

\* detectAndInsertChatMessages: one 500 ms start timer per qualifying field
detectAndInsertChatMessages ==
  /\ \A f \in findChatInputFields : ScanGuard(f) => startTimers[f] < MaxStartTimers
  /\ startTimers' = [f \in Fields |->
       IF f \in findChatInputFields /\ ScanGuard(f) THEN startTimers[f] + 1
       ELSE startTimers[f]]

\* the MutationObserver callback for nodes added or removed elsewhere in the
\* document: cancel the pending scan timer, set a new one
domObserver ==
  /\ chatCheckTimeout' = ScheduleScan(chatCheckTimeout, now)
  /\ UNCHANGED <<dom, content, markers, startTimers, insertTimers, runs, config,
                 domOps, writes, outcome, pure, refused>>

\* the scan timer that is due at the given time fires (the variable
\* chatCheckTimeout keeps its handle)
ScanTimer(due) ==
  /\ due \in chatCheckTimeout.pending
  /\ chatCheckTimeout' = [chatCheckTimeout EXCEPT !.pending = @ \ {due}]
  /\ detectAndInsertChatMessages
  /\ UNCHANGED <<dom, content, markers, insertTimers, runs, config, domOps, writes, outcome, pure, refused>>

\* a debounced scan timer fires, the time it takes not followed
ChatCheckTimer == \E due \in chatCheckTimeout.pending : ScanTimer(due)

\* ============================================================= pipeline run
NewRun ==
  [pc |-> "start", attempts |-> 0, waits |-> <<>>, recipientInfo |-> NoRecipient,
   chatHistoryInfo |-> NullV, researchRecipient |-> NoRecipient,
   researchResults |-> NullV, category |-> Undef, message |-> <<>>, enrich |-> {},
   history |-> <<>>, keys |-> {}]

RemoveAt(s, i) == SubSeq(s, 1, i - 1) \o SubSeq(s, i + 1, Len(s))

\* ExtractionStep that gives up at the second attempt
ExtractionStep_TwoAttempts(run, recipient, chat) ==
  IF recipient # NoRecipient
  THEN [run EXCEPT !.attempts = @ + 1, !.recipientInfo = recipient,
                   !.researchRecipient = IF chat THEN @ ELSE recipient,
                   !.pc = IF chat THEN "summarizing" ELSE "researching"]
  ELSE IF run.attempts + 1 < Len(RetryDelays)
  THEN [run EXCEPT !.attempts = @ + 1, !.pc = "waiting",
                   !.waits = Append(@, RetryDelays[run.attempts + 1])]
  ELSE [run EXCEPT !.attempts = @ + 1, !.pc = "abandon"]

\* one call of extractRecipientInfo in step 1 and what follows it up to the
\* next await.  recipient is what the call finds, chat whether step 2 finds a
\* chat container.  Found: on to step 3, or with no container straight into
\* performRecipientResearch, which extracts the recipient again from the same
\* DOM.  Not found: a wait of 1 s, then of 2 s, then the thrown error
ExtractionStep(run, recipient, chat) ==
  IF recipient # NoRecipient
  THEN [run EXCEPT !.attempts = @ + 1, !.recipientInfo = recipient,
                   !.researchRecipient = IF chat THEN @ ELSE recipient,
                   !.pc = IF chat THEN "summarizing" ELSE "researching"]
  ELSE IF run.attempts + 1 <= Len(RetryDelays)
  THEN [run EXCEPT !.attempts = @ + 1, !.pc = "waiting",
                   !.waits = Append(@, RetryDelays[run.attempts + 1])]
  ELSE [run EXCEPT !.attempts = @ + 1, !.pc = "abandon"]

\* inputElement.innerHTML = html, then dispatchEvent(new InputEvent("input"))
Write(html) == [html |-> html, input |-> TRUE]

\* the DOM operations of a successful insertMessage
InsertOps == {"focus", "innerHTML", "input"}

\* insertMessage that also clicks the send control
insertMessage_Sends(f, message, domOk) ==
  IF message = <<>>
  THEN [ret |-> FALSE, content |-> content[f], ops |-> {}, timers |-> {}, processed |-> {},
        writes |-> <<>>]
  ELSE IF ~domOk
  THEN [ret |-> FALSE, content |-> content[f], ops |-> {"focus"}, timers |-> {},
        processed |-> {}, writes |-> <<>>]
  ELSE [ret |-> TRUE, content |-> HtmlContent(message), ops |-> InsertOps \cup {"click"},
        timers |-> {[phase |-> "perturb", html |-> HtmlContent(message)]},
        processed |-> {f}, writes |-> <<Write(HtmlContent(message))>>]

\* insertMessage: what it returns and does to the field; domOk is FALSE when
\* a DOM call inside its try block throws
insertMessage(f, message, domOk) ==
  IF message = <<>>
  THEN [ret |-> FALSE, content |-> content[f], ops |-> {}, timers |-> {}, processed |-> {},
        writes |-> <<>>]
  ELSE IF ~domOk
  THEN [ret |-> FALSE, content |-> content[f], ops |-> {"focus"}, timers |-> {},
        processed |-> {}, writes |-> <<>>]
  ELSE [ret |-> TRUE, content |-> HtmlContent(message), ops |-> InsertOps,
        timers |-> {[phase |-> "perturb", html |-> HtmlContent(message)]},
        processed |-> {f}, writes |-> <<Write(HtmlContent(message))>>]

\* Finally that leaves the in-progress marker set
Finally_KeepsMarker(f, processed) ==
  [processed |-> processed, inProgress |-> messageGenerationInProgress]

\* the markers after the finally block of generateAndInsertMessage
Finally(f, processed) ==
  [processed |-> processed, inProgress |-> messageGenerationInProgress \ {f}]

\* the end of a run that clears the in-progress marker of every field
Finish_ClearsEveryMarker(f, i, kind, text, domOk, saved) ==
  LET r == insertMessage(f, text, domOk) IN
  /\ content' = [content EXCEPT ![f] = r.content]
  /\ processedInputs' = Finally(f, processedInputs \cup r.processed).processed
  /\ messageGenerationInProgress' = {}
  /\ insertTimers' = [insertTimers EXCEPT ![f] = @ \cup r.timers]
  /\ domOps' = [domOps EXCEPT ![f] = @ \cup r.ops]
  /\ writes' = [writes EXCEPT ![f] = @ \o r.writes]
  /\ runs' = [runs EXCEPT ![f] = RemoveAt(@, i)]
  /\ outcome' = [outcome EXCEPT ![f] =
       [ended |-> TRUE, inserted |-> (kind = "draft" /\ r.ret),
        failed |-> (kind = "error" /\ r.ret), saved |-> saved]]

\* the end of a run: insertMessage with the draft (kind "draft") or, from the
\* catch block, insertErrorMessage (kind "error"); then the finally block.
\* saved records that the run has written its entry to the history
Finish(f, i, kind, text, domOk, saved) ==
  LET r == insertMessage(f, text, domOk) IN
  /\ content' = [content EXCEPT ![f] = r.content]
  /\ processedInputs' = Finally(f, processedInputs \cup r.processed).processed
  /\ messageGenerationInProgress' = Finally(f, processedInputs \cup r.processed).inProgress
  /\ insertTimers' = [insertTimers EXCEPT ![f] = @ \cup r.timers]
  /\ domOps' = [domOps EXCEPT ![f] = @ \cup r.ops]
  /\ writes' = [writes EXCEPT ![f] = @ \o r.writes]
  /\ runs' = [runs EXCEPT ![f] = RemoveAt(@, i)]
  /\ outcome' = [outcome EXCEPT ![f] =
       [ended |-> TRUE, inserted |-> (kind = "draft" /\ r.ret),
        failed |-> (kind = "error" /\ r.ret), saved |-> saved]]

\* catch (error) { insertErrorMessage(inputElement, error.message) } finally
Fail(f, i, message) ==
  \E domOk \in BOOLEAN : Finish(f, i, "error", FullErrorMessage(message), domOk, FALSE)

\* the run goes on to its next await
Continue(f, i, run) ==
  /\ runs' = [runs EXCEPT ![f][i] = run]
  /\ UNCHANGED <<content, markers, insertTimers, domOps, writes, outcome>>

\* EntryGuard without the test of the processed marker
EntryGuard_NoProcessedTest(f) == f \notin messageGenerationInProgress

\* the guard at the top of generateAndInsertMessage
EntryGuard(f) == f \notin processedInputs /\ f \notin messageGenerationInProgress

\* generateAndInsertMessage that does not set the in-progress marker
generateAndInsertMessage_NoMarker(f) ==
  /\ UNCHANGED <<dom, config, chatCheckTimeout, pure>>
  /\ IF EntryGuard(f) /\ IsEmptyContent(content[f])
     THEN /\ Len(runs[f]) < MaxRunsPerField
          /\ messageGenerationInProgress' = messageGenerationInProgress
          /\ \E recipient \in Extractable, chat \in BOOLEAN :
               runs' = [runs EXCEPT ![f] =
                 Append(@, ExtractionStep(NewRun, recipient, chat))]
          /\ UNCHANGED <<content, processedInputs, insertTimers, domOps, writes, outcome, refused>>
     ELSE /\ refused' = IF f \in processedInputs THEN refused \cup {f} ELSE refused
          /\ UNCHANGED <<content, markers, runs, insertTimers, domOps, writes, outcome>>

\* generateAndInsertMessage up to its first await
generateAndInsertMessage(f) ==
  /\ UNCHANGED <<dom, config, chatCheckTimeout, pure>>
  /\ IF EntryGuard(f) /\ IsEmptyContent(content[f])
     THEN /\ Len(runs[f]) < MaxRunsPerField
          /\ messageGenerationInProgress' = messageGenerationInProgress \cup {f}
          /\ \E recipient \in Extractable, chat \in BOOLEAN :
               runs' = [runs EXCEPT ![f] =
                 Append(@, ExtractionStep(NewRun, recipient, chat))]
          /\ UNCHANGED <<content, processedInputs, insertTimers, domOps, writes, outcome, refused>>
     ELSE /\ refused' = IF f \in processedInputs THEN refused \cup {f} ELSE refused
          /\ UNCHANGED <<content, markers, runs, insertTimers, domOps, writes, outcome>>

\* TimerGuard without the isConnected test
TimerGuard_NoConnectedTest(f) ==
  /\ f \notin processedInputs
  /\ f \notin messageGenerationInProgress
  /\ IsEmptyContent(content[f])

\* the test the start timer applies before it calls generateAndInsertMessage
TimerGuard(f) ==
  /\ dom[f] # "detached"
  /\ f \notin processedInputs
  /\ f \notin messageGenerationInProgress
  /\ IsEmptyContent(content[f])

\* a 500 ms start timer fires
StartTimer(f) ==
  /\ startTimers[f] > 0
  /\ startTimers' = [startTimers EXCEPT ![f] = @ - 1]
  /\ IF TimerGuard(f) THEN generateAndInsertMessage(f)
     ELSE UNCHANGED <<dom, content, markers, runs, insertTimers, chatCheckTimeout,
                      config, domOps, writes, outcome, pure, refused>>

\* generateAndInsertMessage called by any other caller
DirectCall(f) ==
  /\ generateAndInsertMessage(f)
  /\ UNCHANGED startTimers

runFrame == <<dom, startTimers, chatCheckTimeout, config, pure, refused>>

\* the 1 s or 2 s wait of step 1 ends: the next extraction attempt
RetryTimer(f, i) ==
  /\ runs[f][i].pc = "waiting"
  /\ UNCHANGED runFrame
  /\ \E recipient \in Extractable, chat \in BOOLEAN :
       LET run == ExtractionStep(runs[f][i], recipient, chat) IN
       IF run.pc = "abandon" THEN Fail(f, i, ErrExtract) ELSE Continue(f, i, run)

\* the summarizer failed: no key, transport error, non-2xx status, a body or
\* a content that is not JSON
SummarizerFailure(key, resp, parsed) ==
  \/ key = Null
  \/ resp.kind \in {"reject", "status", "badjson"}
  \/ resp.kind = "content" /\ parsed = SyntaxErr

\* the research stage failed: no recipient found, research.js not loaded,
\* researchRecipient threw or returned an error (credentials, request)
ResearchFailure(recipient, research) ==
  recipient = NoRecipient \/ research.kind \in {"unavailable", "throws", "error"}

\* step 3 ends: extractChatHistoryInfo settles; step 4 begins with
\* performRecipientResearch extracting the recipient from the DOM as it is now
SummarizeDone(f, i) ==
  /\ runs[f][i].pc = "summarizing"
  /\ UNCHANGED runFrame
  /\ \E a \in SummarizerAnswers, recipient \in Extractable :
       LET key == getOpenAIApiKey(localKey, storedKey)
           r == extractChatHistoryInfo(key, a[1], a[2])
       IN IF r.thrown
          THEN Fail(f, i, r.message)
          ELSE Continue(f, i,
                 [runs[f][i] EXCEPT
                    !.pc = "researching",
                    !.chatHistoryInfo = r.value,
                    !.researchRecipient = recipient,
                    !.keys = @ \cup {key},
                    !.enrich = IF SummarizerFailure(key, a[1], a[2])
                               THEN @ \cup {"summarizer"} ELSE @])

\* step 4 ends: performRecipientResearch settles, step 5 begins
ResearchDone(f, i) ==
  /\ runs[f][i].pc = "researching"
  /\ UNCHANGED runFrame
  /\ \E research \in ResearchBehaviours :
       LET r == performRecipientResearch(runs[f][i].researchRecipient, research)
       IN IF r.thrown
          THEN Fail(f, i, r.message)
          ELSE Continue(f, i,
                 [runs[f][i] EXCEPT
                    !.pc = "classifying",
                    !.researchResults = r.value,
                    !.enrich = IF ResearchFailure(runs[f][i].researchRecipient, research)
                               THEN @ \cup {"research"} ELSE @])

\* steps 5 and 6 end: categorizeInteraction settles, category.toLowerCase(),
\* the preferences are read, step 7 begins
ClassifyDone(f, i) ==
  /\ runs[f][i].pc = "classifying"
  /\ UNCHANGED runFrame
  /\ \E resp \in DirectAnswers :
       LET key == getOpenAIApiKey(localKey, storedKey)
           r == categorizeInteraction(key, storedCategories, runs[f][i].chatHistoryInfo, resp)
       IN IF r.thrown
          THEN Fail(f, i, r.message)
          ELSE IF r.value.t # "string"
          THEN Fail(f, i, ErrType)
          ELSE Continue(f, i, [runs[f][i] EXCEPT !.pc = "generating", !.category = r.value,
                                                 !.keys = @ \cup {key}])

\* step 7 ends: generateMessageDraft settles, step 8 begins
GenerateDone(f, i) ==
  /\ runs[f][i].pc = "generating"
  /\ UNCHANGED runFrame
  /\ \E relayResp \in RelayAnswers, directResp \in DirectAnswers :
       LET key == getOpenAIApiKey(localKey, storedKey)
           r == generateMessageDraft(key, runs[f][i].chatHistoryInfo, langCacheCreds,
                                     relayResp, directResp)
       IN IF r.thrown
          THEN Fail(f, i, r.message)
          ELSE Continue(f, i, [runs[f][i] EXCEPT !.pc = "storing", !.message = r.value.s,
                                                 !.keys = @ \cup {key}])

\* steps 8 and 9 with a history storage that is out of reach: the read of
\* storeMessageHistory fails, the error is swallowed, then insertMessage and
\* the finally block
StoreDone(f, i) ==
  /\ runs[f][i].pc = "storing"
  /\ UNCHANGED runFrame
  /\ \E domOk \in BOOLEAN : Finish(f, i, "draft", runs[f][i].message, domOk, FALSE)

\* the 50 ms timer of insertMessage: the content with a space, then a 10 ms timer
PerturbTimer(f) ==
  /\ \E t \in insertTimers[f] :
       /\ t.phase = "perturb"
       /\ content' = [content EXCEPT ![f] = HtmlWithSpace(t.html)]
       /\ writes' = [writes EXCEPT ![f] = Append(@, Write(HtmlWithSpace(t.html)))]
       /\ insertTimers' = [insertTimers EXCEPT ![f] =
            (@ \ {t}) \cup {[phase |-> "restore", html |-> t.html]}]
  /\ domOps' = [domOps EXCEPT ![f] = @ \cup {"innerHTML", "input"}]
  /\ UNCHANGED <<dom, markers, startTimers, chatCheckTimeout, runs, config, outcome, pure, refused>>

\* the 10 ms timer of insertMessage: the content without the space
RestoreTimer(f) ==
  /\ \E t \in insertTimers[f] :
       /\ t.phase = "restore"
       /\ content' = [content EXCEPT ![f] = t.html]
       /\ writes' = [writes EXCEPT ![f] = Append(@, Write(t.html))]
       /\ insertTimers' = [insertTimers EXCEPT ![f] = @ \ {t}]
  /\ domOps' = [domOps EXCEPT ![f] = @ \cup {"innerHTML", "input"}]
  /\ UNCHANGED <<dom, markers, startTimers, chatCheckTimeout, runs, config, outcome, pure, refused>>

RunStep(f) ==
  \E i \in 1..Len(runs[f]) :
    \/ RetryTimer(f, i)
    \/ SummarizeDone(f, i)
    \/ ResearchDone(f, i)
    \/ ClassifyDone(f, i)
    \/ GenerateDone(f, i)
    \/ StoreDone(f, i)

Next ==
  \/ \E f \in Fields : DomChange(f)
  \/ \E f \in Fields : UserEdit(f)
  \/ SettingsChange
  \/ domObserver
  \/ ChatCheckTimer
  \/ \E f \in Fields : StartTimer(f)
  \/ \E f \in Fields : RunStep(f)
  \/ \E f \in Fields : PerturbTimer(f)
  \/ \E f \in Fields : RestoreTimer(f)

Spec == Init /\ [][Next]_vars

\* the script is loaded on a page that has no message field yet
InitNoField == Init /\ \A f \in Fields : dom[f] = "detached"

\* every request, storage call and wait of a run settles in the end: a run
\* that can take a step is not left waiting for ever
SpecSettle == InitNoField /\ [][Next]_vars /\ \A f \in Fields : WF_vars(RunStep(f))

\* the mutations pause for longer than the debounce interval again and again,
\* and the browser runs the timers that are due: a pending scan timer and a
\* pending start timer fire in the end
SpecPause ==
  /\ InitNoField
  /\ [][Next]_vars
  /\ WF_vars(ChatCheckTimer)
  /\ \A f \in Fields : WF_vars(StartTimer(f))

\* the runs of a field while the user goes from one conversation to another
NextSwitch ==
  \/ \E f \in Fields : StartTimer(f)
  \/ \E f \in Fields : RunStep(f)
  \/ SwitchConversation
SpecSwitch == Init /\ [][NextSwitch]_vars

\* the same, with generateAndInsertMessage also called at any time
NextCall == Next \/ \E f \in Fields : DirectCall(f)
SpecCall == Init /\ [][NextCall]_vars

\* ------------------------------------------------- the debounce, with time
\* the longest time that passes in one step, and the end of the time followed
TickLen == 500
MaxClock == 3000

\* the time after the longest step that passes no pending timer
TimeAfter(time, pending) ==
  IF \E due \in pending : due < time + TickLen
  THEN CHOOSE due \in pending : \A other \in pending : due <= other
  ELSE time + TickLen

\* time passes; a timer fires when it is due, before time goes on
Tick ==
  /\ now < MaxClock
  /\ \A due \in chatCheckTimeout.pending : due > now
  /\ now' = TimeAfter(now, chatCheckTimeout.pending)
  /\ UNCHANGED <<orchVars, gen, cat, res, langcache_entries, cacheCall, evicted, search,
                 cos, messageHistory>>

\* a debounced scan timer fires when it is due
ChatCheckTimerDue ==
  \E due \in chatCheckTimeout.pending : due <= now /\ ScanTimer(due)

NextDebounce ==
  \/ \E f \in Fields : DomChange(f)
  \/ domObserver
  \/ ChatCheckTimerDue
  \/ Tick
  \/ \E f \in Fields : StartTimer(f)

SpecDebounce == Init /\ [][NextDebounce]_vars


\* ================================================= generateMessageDraft alone
KeyLocals == {None, Placeholder, LocalKey}
KeyStores == {None, StoredKey}
CredSets == [url : CredPart, apiKey : CredPart, id : CredPart]
NoAnswer == [kind |-> "none"]

GenDone(g, result) == [g EXCEPT !.pc = "done", !.result = result]

\* generateMessageDraft is called: the key, the prompt, the credentials
GenCall ==
  /\ gen.pc = "idle"
  /\ \E local \in KeyLocals, stored \in KeyStores, creds \in CredSets,
        info \in AllChatInfos \cup {NullV} :
       LET g == [pc |-> "called", key |-> getOpenAIApiKey(local, stored), info |-> info,
                 creds |-> creds, relay |-> NoAnswer, direct |-> NoAnswer,
                 calls |-> <<>>, result |-> Return(Undef)]
       IN gen' = IF g.key = Null THEN GenDone(g, Throw(ErrNoKey))
                 ELSE IF PromptThrows(info) THEN GenDone(g, Throw(ErrType))
                 ELSE IF getLangCacheCredentials(creds)
                 THEN [g EXCEPT !.pc = "cache", !.calls = <<"relay">>]
                 ELSE [g EXCEPT !.pc = "direct", !.calls = <<"completion">>]
  /\ UNCHANGED <<orchVars, cat, lib>>

\* the relay answers callLangCache
GenRelayAnswer ==
  /\ gen.pc = "cache"
  /\ \E resp \in RelayResponses :
       LET g == [gen EXCEPT !.relay = resp] IN
       gen' = IF CachePath(resp).thrown THEN GenDone(g, CachePath(resp))
              ELSE IF Truthy(CachePath(resp).value) THEN GenDone(g, CachePath(resp))
              ELSE [g EXCEPT !.pc = "direct", !.calls = Append(@, "completion")]
  /\ UNCHANGED <<orchVars, cat, lib>>

\* the completion endpoint answers the direct call
GenDirectAnswer ==
  /\ gen.pc = "direct"
  /\ \E resp \in FetchResponses :
       gen' = GenDone([gen EXCEPT !.direct = resp], DirectPath(resp))
  /\ UNCHANGED <<orchVars, cat, lib>>

NextGen == GenCall \/ GenRelayAnswer \/ GenDirectAnswer
SpecGen == Init /\ [][NextGen]_vars

\* ================================================ categorizeInteraction alone
Sales == <<"S", "a", "l", "e", "s">>
SalesLead == <<"S", "a", "l", "e", "s", " ", "l", "e", "a", "d">>
CategoryStores ==
  {Undef, NullV, Arr(<<>>), Arr(DEFAULT_CATEGORIES), Arr(<<Sales, SalesLead>>),
   Arr(<<SalesLead, Sales>>), Str(Sales)}
Labels ==
  {<<>>, <<"r", "e", "c", "r", "u", "i", "t", "e", "r", " ", "i", "n", "b", "o", "u", "n", "d">>, <<" ", "C", "o", "l", "l", "e", "a", "g", "u", "e", "/", "f", "r", "i", "e", "n", "d", " ", "NL">>, <<"C", "a", "t", "e", "g", "o", "r", "y", ":", " ", "I", "n", "b", "o", "u", "n", "d", " ", "a", "d", "v", "i", "c", "e", " ", "r", "e", "q", "u", "e", "s", "t", ".">>, <<"S", "p", "a", "m">>, <<"s", "a", "l", "e", "s", " ", "l", "e", "a", "d">>}
LabelResponses ==
  {[kind |-> "reject"], [kind |-> "status"], [kind |-> "badjson"],
   [kind |-> "nochoices"], [kind |-> "nonstring"]}
    \cup {[kind |-> "content", content |-> c] : c \in Labels}

\* the classifier reaches its fetch
ClassifierCalls(key, stored, chatHistoryInfo) ==
  /\ key # Null
  /\ CategoriesInUse(stored).t = "array"
  /\ ~MapThrows(MessagesOf(chatHistoryInfo))

\* categorizeInteraction is called: the key, the category list, the prompt
CatCall ==
  /\ cat.pc = "idle"
  /\ \E local \in KeyLocals, stored \in KeyStores, categories \in CategoryStores,
        info \in AllChatInfos \cup {NullV} :
       LET c == [pc |-> "fetch", key |-> getOpenAIApiKey(local, stored),
                 categories |-> categories, info |-> info, resp |-> NoAnswer,
                 calls |-> <<"classifier">>, result |-> Return(Undef)]
       IN cat' = IF ClassifierCalls(c.key, categories, info) THEN c
                 ELSE [c EXCEPT !.pc = "done", !.calls = <<>>,
                         !.result = categorizeInteraction(c.key, categories, info, NoAnswer)]
  /\ UNCHANGED <<orchVars, gen, lib>>

\* the completion endpoint answers the classifier
CatAnswer ==
  /\ cat.pc = "fetch"
  /\ \E resp \in LabelResponses :
       cat' = [cat EXCEPT !.pc = "done", !.resp = resp,
                 !.result = categorizeInteraction(cat.key, cat.categories, cat.info, resp)]
  /\ UNCHANGED <<orchVars, gen, lib>>

NextCat == CatCall \/ CatAnswer
SpecCat == Init /\ [][NextCat]_vars

\* ================================================== researchRecipient alone
Names == {<<>>, <<"Jane", " ", "Doe">>}
Bylines == {<<>>, <<"CEO">>}
SearchCreds == [googleApiKey : {None, "set"}, googleSearchEngineId : {None, "set"}]
SearchResponses == {[kind |-> "reject"], [kind |-> "status"], [kind |-> "badjson"], [kind |-> "ok"]}

\* getOpenAIApiKey of research.js: the settings store only
researchApiKey(stored) == IF stored # None THEN stored ELSE Null

\* the search term built from the name and the byline
BasicSearchTerm(name, byline) ==
  IF byline # <<>> THEN name \o <<" - ">> \o byline ELSE name

\* generateSearchTerm that lets a rejected request escape
generateSearchTerm_Throws(name, byline, key, resp) ==
  IF name = <<>> THEN Return(NullV)
  ELSE IF key = Null THEN Return(Str(BasicSearchTerm(name, byline)))
  ELSE IF resp.kind = "reject" THEN Throw(ErrFetch)
  ELSE IF resp.kind \in {"status", "badjson"}
       THEN Return(Str(BasicSearchTerm(name, byline)))
  ELSE IF ChoiceText(resp).thrown THEN Return(Str(BasicSearchTerm(name, byline)))
  ELSE IF Truthy(ChoiceText(resp).value) THEN Return(ChoiceText(resp).value)
  ELSE Return(Str(BasicSearchTerm(name, byline)))

\* generateSearchTerm: null without a name; the model's query when the
\* request delivers one; otherwise the term built from name and byline
generateSearchTerm(name, byline, key, resp) ==
  IF name = <<>> THEN Return(NullV)
  ELSE IF key = Null THEN Return(Str(BasicSearchTerm(name, byline)))
  ELSE IF resp.kind \in {"reject", "status", "badjson"}
       THEN Return(Str(BasicSearchTerm(name, byline)))
  ELSE IF ChoiceText(resp).thrown THEN Return(Str(BasicSearchTerm(name, byline)))
  ELSE IF Truthy(ChoiceText(resp).value) THEN Return(ChoiceText(resp).value)
  ELSE Return(Str(BasicSearchTerm(name, byline)))

\* getGoogleApiCredentials delivers both credentials
HasSearchCreds(creds) == creds.googleApiKey # None /\ creds.googleSearchEngineId # None

\* performGoogleSearch: an object with success, or one with error
performGoogleSearch(searchTerm, creds, resp) ==
  IF ~Truthy(searchTerm) THEN [error |-> "No search term provided"]
  ELSE IF ~HasSearchCreds(creds)
       THEN [error |-> "Google API credentials not configured", searchTerm |-> searchTerm]
  ELSE IF resp.kind = "status"
       THEN [error |-> "Google API error: 500", searchTerm |-> searchTerm]
  ELSE IF resp.kind \in {"reject", "badjson"}
       THEN [error |-> "error.message", searchTerm |-> searchTerm]
  ELSE [success |-> TRUE, searchTerm |-> searchTerm]

\* researchRecipient: what the promise settles with, given the search term
\* generateSearchTerm settled with
researchRecipient(term, creds, resp) ==
  IF term.thrown THEN term
  ELSE IF ~Truthy(term.value)
       THEN Return([t |-> "object", error |-> "Could not generate search term"])
  ELSE Return([t |-> "object", searchTerm |-> term.value,
               searchResults |-> performGoogleSearch(term.value, creds, resp)])

\* researchRecipient from the search term on: the credentials are read, the
\* search request is sent when they are there
ResSearch(r, term) ==
  {IF term.thrown \/ ~Truthy(term.value) \/ ~HasSearchCreds(creds)
   THEN [r EXCEPT !.pc = "done", !.term = term, !.creds = creds,
                  !.steps = Append(@, "search"),
                  !.result = researchRecipient(term, creds, NoAnswer)]
   ELSE [r EXCEPT !.pc = "search", !.term = term, !.creds = creds,
                  !.steps = Append(@, "search"),
                  !.calls = Append(@, "customsearch")] : creds \in SearchCreds}

\* researchRecipient is called: generateSearchTerm up to its request
ResCall ==
  /\ res.pc = "idle"
  /\ \E name \in Names, byline \in Bylines, stored \in KeyStores :
       LET r == [pc |-> "term", name |-> name, byline |-> byline,
                 key |-> researchApiKey(stored), termResp |-> NoAnswer,
                 term |-> Return(Undef), creds |-> [googleApiKey |-> None, googleSearchEngineId |-> None],
                 searchResp |-> NoAnswer, steps |-> <<>>, calls |-> <<>>,
                 result |-> Return(Undef)]
       IN IF name = <<>>
          THEN res' = [r EXCEPT !.pc = "done", !.term = Return(NullV),
                         !.result = researchRecipient(Return(NullV), r.creds, NoAnswer)]
          ELSE IF r.key = Null
          THEN res' \in ResSearch(r, generateSearchTerm(name, byline, r.key, NoAnswer))
          ELSE res' = [r EXCEPT !.calls = <<"completion">>]
  /\ UNCHANGED <<orchVars, gen, cat, langcache_entries, cacheCall, now, evicted, search,
                 cos, messageHistory>>

\* the completion endpoint answers generateSearchTerm
ResTermAnswer ==
  /\ res.pc = "term"
  /\ \E resp \in FetchResponses :
       res' \in ResSearch([res EXCEPT !.termResp = resp],
                          generateSearchTerm(res.name, res.byline, res.key, resp))
  /\ UNCHANGED <<orchVars, gen, cat, langcache_entries, cacheCall, now, evicted, search,
                 cos, messageHistory>>

\* the search API answers performGoogleSearch
ResSearchAnswer ==
  /\ res.pc = "search"
  /\ \E resp \in SearchResponses :
       res' = [res EXCEPT !.pc = "done", !.searchResp = resp,
                 !.result = researchRecipient(res.term, res.creds, resp)]
  /\ UNCHANGED <<orchVars, gen, cat, langcache_entries, cacheCall, now, evicted, search,
                 cos, messageHistory>>

NextResearch == ResCall \/ ResTermAnswer \/ ResSearchAnswer
SpecResearch == Init /\ [][NextResearch]_vars

\* ============================================================ the LLM cache
\* Text is a sequence of characters here, numbers are their decimal text
Num(text) == [t |-> "number", text |-> text]
Zero == Num(<<"0">>)
DefaultTemperature == Num(<<"0", ".", "7">>)
LowTemperature == Num(<<"0", ".", "3">>)
FiftyTokens == Num(<<"5", "0">>)
DefaultModel == <<"g", "p", "t", "-", "4", "o", "-", "m", "i", "n", "i">>
OtherModel == <<"g", "p", "t", "-", "4", "o">>

\* a || b
Or(a, b) ==
  IF a.t = "number" THEN (IF a = Zero THEN b ELSE a)
  ELSE IF Truthy(a) THEN a ELSE b

\* context.name: undefined when the object has no such property
Prop(context, name) == IF name \in DOMAIN context THEN context[name] ELSE Undef

\* String.prototype.charCodeAt
CharCode ==
    (" " :> 32) @@ ("\"" :> 34) @@ ("," :> 44) @@ ("-" :> 45) @@ ("." :> 46) @@ ("0" :> 48) @@
    ("3" :> 51) @@ ("4" :> 52) @@ ("5" :> 53) @@ ("7" :> 55) @@ (":" :> 58) @@ ("P" :> 80) @@
    ("T" :> 84) @@ ("a" :> 97) @@ ("b" :> 98) @@ ("c" :> 99) @@ ("d" :> 100) @@ ("e" :> 101)
    @@ ("g" :> 103) @@ ("h" :> 104) @@ ("i" :> 105) @@ ("k" :> 107) @@ ("l" :> 108) @@ ("m" :>
    109) @@ ("n" :> 110) @@ ("o" :> 111) @@ ("p" :> 112) @@ ("r" :> 114) @@ ("s" :> 115) @@
    ("t" :> 116) @@ ("u" :> 117) @@ ("x" :> 120) @@ ("y" :> 121) @@ ("{" :> 123) @@ ("|" :>
    124) @@ ("}" :> 125)

\* JSON.stringify of a string or a number
Json(v) == IF v.t = "string" THEN <<"\"">> \o v.s \o <<"\"">> ELSE v.text

\* JSON.stringify({model, temperature, maxTokens, systemPrompt}): a property
\* whose value is undefined is left out
KeyModel == <<"{", "\"", "m", "o", "d", "e", "l", "\"", ":">>
KeyTemperature == <<",", "\"", "t", "e", "m", "p", "e", "r", "a", "t", "u", "r", "e", "\"", ":">>
KeyMaxTokens == <<",", "\"", "m", "a", "x", "T", "o", "k", "e", "n", "s", "\"", ":">>
KeySystemPrompt == <<",", "\"", "s", "y", "s", "t", "e", "m", "P", "r", "o", "m", "p", "t", "\"", ":">>
contextStr(context) ==
  KeyModel \o Json(Or(Prop(context, "model"), Str(DefaultModel)))
    \o KeyTemperature \o Json(Or(Prop(context, "temperature"), DefaultTemperature))
    \o (IF Prop(context, "maxTokens") = Undef THEN <<>>
        ELSE KeyMaxTokens \o Json(Prop(context, "maxTokens")))
    \o (IF Prop(context, "systemPrompt") = Undef THEN <<>>
        ELSE KeySystemPrompt \o Json(Prop(context, "systemPrompt")))
    \o <<"}">>

\* `${prompt}|${contextStr}`
keyData(prompt, context) == prompt \o <<"|">> \o contextStr(context)

\* a 32-bit integer as its two 16-bit halves
Half == 65536
\* hash = ((hash << 5) - hash) + char; hash = hash & hash
HashStep(h, char) ==
  LET low == 31 * h[2] + char
  IN <<(31 * h[1] + (low \div Half)) % Half, low % Half>>

\* the values hash & hash can have
Int32 == (0..(Half - 1)) \X (0..(Half - 1))

\* the loop over the characters i..j of the text, entered with hash = h (a
\* value, looked at before the range is); the range is walked as its first
\* half and then its second half
RECURSIVE HashRange(_, _, _, _)
HashRange(text, h, i, j) ==
  IF h \notin Int32 \/ i > j THEN h
  ELSE IF i = j THEN HashStep(h, CharCode[text[i]])
  ELSE HashRange(text, HashRange(text, h, i, (i + j) \div 2), (i + j) \div 2 + 1, j)

\* Math.abs of the signed 32-bit integer
Abs32(h) ==
  IF h[1] < Half \div 2 THEN h
  ELSE IF h[2] = 0 THEN <<Half - h[1], 0>>
  ELSE <<Half - 1 - h[1], Half - h[2]>>

\* generateCacheKey: "langcache:" and the hash in base 36 (here its halves)
KeyPrefix == <<"l", "a", "n", "g", "c", "a", "c", "h", "e", ":">>
generateCacheKey(prompt, context) ==
  <<KeyPrefix, Abs32(HashRange(keyData(prompt, context), <<0, 0>>, 1, Len(keyData(prompt, context))))>>

\* ------------------------------------------------------- cosine similarity
\* Numbers are IEEE 754 doubles. An integer of up to 130 bits is the sequence
\* of its 13-bit limbs, least significant first; a double is a sign s, a
\* 53-bit mantissa m and an exponent e and stands for s * m * 2^e.
LimbBits == 13
Limb == 8192
MantissaBits == 53
Positions == <<1, 2, 3, 4, 5, 6, 7, 8, 9, 10>>
Width == Len(Positions)
Digits == 1..Width
BigZero == SeqMap(LAMBDA k : <<0>>, Positions)
BigOf(n) ==
  SeqMap(LAMBDA k : <<IF k = 1 THEN n % Limb
                      ELSE IF k = 2 THEN (n \div Limb) % Limb
                      ELSE IF k = 3 THEN n \div (Limb * Limb) ELSE 0>>, Positions)
RECURSIVE CarryFrom(_, _, _)
CarryFrom(c, k, carry) ==
  IF k > Len(c) THEN <<>>
  ELSE <<(c[k] + carry) % Limb>> \o CarryFrom(c, k + 1, (c[k] + carry) \div Limb)
Carry(c) == CarryFrom(c, 1, 0)
Add(a, b) == Carry(SeqMap(LAMBDA k : <<a[k] + b[k]>>, Positions))
\* a - b for a >= b
Sub(a, b) ==
  Carry(SeqMap(LAMBDA k : <<a[k] + (Limb - 1 - b[k]) + (IF k = 1 THEN 1 ELSE 0)>>, Positions))
Geq(a, b) ==
  \/ a = b
  \/ \E k \in Digits : a[k] > b[k] /\ \A j \in (k + 1)..Width : a[j] = b[j]
RECURSIVE Column(_, _, _, _)
Column(a, b, k, i) == IF i > k THEN 0 ELSE a[i] * b[k + 1 - i] + Column(a, b, k, i + 1)
Mul(a, b) == Carry(SeqMap(LAMBDA k : <<Column(a, b, k, 1)>>, Positions))
Pow2(n) ==
  SeqMap(LAMBDA k : <<IF k = n \div LimbBits + 1 THEN 2 ^ (n % LimbBits) ELSE 0>>, Positions)
BitLen(a) ==
  IF a = BigZero THEN 0
  ELSE LET top == CHOOSE k \in Digits : a[k] # 0 /\ \A j \in (k + 1)..Width : a[j] = 0
       IN LimbBits * (top - 1)
            + (CHOOSE n \in 1..LimbBits : a[top] >= 2 ^ (n - 1) /\ a[top] < 2 ^ n)
ShiftRight(a, s) ==
  LET q == s \div LimbBits
      r == s % LimbBits
  IN SeqMap(LAMBDA k :
        <<(IF k + q <= Width THEN a[k + q] \div 2 ^ r ELSE 0)
          + (IF k + q + 1 <= Width THEN (a[k + q + 1] % 2 ^ r) * 2 ^ (LimbBits - r) ELSE 0)>>,
        Positions)
ShiftLeft(a, s) == Mul(a, Pow2(s))
LowBits(a, s) == Sub(a, ShiftLeft(ShiftRight(a, s), s))

FloatZero == [s |-> 0, m |-> BigZero, e |-> 0]
\* a mantissa that rounding has carried to 2^53 is halved
Normal(sign, m, e) ==
  IF m = Pow2(MantissaBits) THEN [s |-> sign, m |-> Pow2(MantissaBits - 1), e |-> e + 1]
  ELSE [s |-> sign, m |-> m, e |-> e]
\* ties to even: up when more than half is cut off, or half and the kept part
\* is odd or the exact value lies above
RoundsUp(rem, half, sticky, odd) == IF rem = half THEN sticky \/ odd ELSE Geq(rem, half)
RoundKept(sign, q, rem, half, e, sticky) ==
  Normal(sign, IF RoundsUp(rem, half, sticky, q[1] % 2 = 1) THEN Add(q, BigOf(1)) ELSE q, e)
RoundTo(sign, a, e, sticky, len) ==
  IF len <= MantissaBits
  THEN [s |-> sign, m |-> ShiftLeft(a, MantissaBits - len), e |-> e - (MantissaBits - len)]
  ELSE RoundKept(sign, ShiftRight(a, len - MantissaBits), LowBits(a, len - MantissaBits),
                 Pow2(len - MantissaBits - 1), e + len - MantissaBits, sticky)
\* round to nearest, ties to even: the double nearest to sign * a * 2^e, where
\* sticky says that the exact value lies above a * 2^e by less than 2^e
Round(sign, a, e, sticky) == RoundTo(sign, a, e, sticky, BitLen(a))

\* t when its product with itself (square) or with d is at most n, else x
AtMost(n, d, square, x, t) == IF Geq(n, Mul(t, IF square THEN t ELSE d)) THEN t ELSE x
\* the largest number made of x and bits lo..hi whose product with itself
\* (square) or with d is at most n
RECURSIVE Largest(_, _, _, _, _, _)
Largest(n, d, square, x, hi, lo) ==
  IF Len(x) # Width \/ hi < lo THEN x
  ELSE IF hi = lo THEN AtMost(n, d, square, x, Add(x, Pow2(hi)))
  ELSE Largest(n, d, square, Largest(n, d, square, x, hi, (hi + lo) \div 2 + 1),
               (hi + lo) \div 2, lo)

\* the binary places kept before a square root or a quotient is rounded
Scale == 110
RoundRoot(big, root) == Round(1, root, -(Scale \div 2), Mul(root, root) # big)
SqrtOf(big) == RoundRoot(big, Largest(big, BigZero, TRUE, BigZero, Scale \div 2 + 4, 0))
\* Math.sqrt of a whole number
FloatSqrt(n) == IF n = 0 THEN FloatZero ELSE SqrtOf(ShiftLeft(BigOf(n), Scale))
\* a * b
FloatMul(a, b) ==
  IF a.s = 0 \/ b.s = 0 THEN FloatZero
  ELSE Round(a.s * b.s, Mul(a.m, b.m), a.e + b.e, FALSE)
RoundQuotient(sign, big, d, quot) == Round(sign, quot, -Scale - d.e, Mul(quot, d.m) # big)
QuotientOf(sign, big, d) ==
  RoundQuotient(sign, big, d, Largest(big, d.m, FALSE, BigZero, Scale - MantissaBits + 7, 0))
\* n / d for a whole number n and a double d other than 0
FloatDiv(n, d) ==
  IF n = 0 THEN FloatZero
  ELSE QuotientOf((IF n < 0 THEN -1 ELSE 1) * d.s,
                  ShiftLeft(BigOf(IF n < 0 THEN -n ELSE n), Scale), d)
FloatOf(n) == Round(1, BigOf(n), 0, FALSE)
FloatOne == FloatOf(1)
\* a > b
FloatGreater(a, b) ==
  IF a.s # b.s THEN a.s > b.s
  ELSE IF a.s = 0 THEN FALSE
  ELSE IF a.s = 1 THEN a.e > b.e \/ (a.e = b.e /\ a.m # b.m /\ Geq(a.m, b.m))
  ELSE b.e > a.e \/ (a.e = b.e /\ a.m # b.m /\ Geq(b.m, a.m))
\* a >= b
FloatAtLeast(a, b) == ~FloatGreater(b, a)

\* the sums of the loop are whole numbers here and exact
RECURSIVE Dot(_, _)
Dot(v, w) == IF v = <<>> THEN 0 ELSE Head(v) * Head(w) + Dot(Tail(v), Tail(w))

\* dotProduct / denominator, 0 for a zero denominator
Quotient(dotProduct, denominator) ==
  IF denominator = FloatZero THEN FloatZero ELSE FloatDiv(dotProduct, denominator)
\* cosineSimilarity: 0 for a missing vector, for vectors of different length
\* and for a zero denominator
cosineSimilarity(vec1, vec2) ==
  IF vec1 = NullV \/ vec2 = NullV THEN FloatZero
  ELSE IF Len(vec1.items) # Len(vec2.items) THEN FloatZero
  ELSE Quotient(Dot(vec1.items, vec2.items),
                FloatMul(FloatSqrt(Dot(vec1.items, vec1.items)),
                         FloatSqrt(Dot(vec2.items, vec2.items))))

\* the embedding vectors of the cache and their similarities
Vectors == {Arr(<<1, 0>>), Arr(<<4, 3>>), Arr(<<0, 1>>), Arr(<<3, 4>>), Arr(<<1, 0, 0>>)}
SimilarityTable == {<<pair, cosineSimilarity(pair[1], pair[2])>> : pair \in Vectors \X Vectors}
Similarity(vec1, vec2) == (CHOOSE row \in SimilarityTable : row[1] = <<vec1, vec2>>)[2]

\* ------------------------------------------------------------ cache storage
\* the entry limit of storeInRedis (1000 in the source)
CacheCap == 2
\* the last value of Date.now()
MaxNow == 2

Range(s) == {s[i] : i \in DOMAIN s}

\* the position of the entry stored under cacheKey, 0 when there is none
RECURSIVE IndexOf(_, _, _)
IndexOf(entries, cacheKey, k) ==
  IF k > Len(entries) THEN 0
  ELSE IF entries[k].key = cacheKey THEN k
  ELSE IndexOf(entries, cacheKey, k + 1)

\* getFromRedis that finds nothing
getFromRedis_NeverFinds(cacheKey, conn, entries) == NullV

\* getFromRedis: the entry under the key, null without one or without storage
getFromRedis(cacheKey, conn, entries) ==
  IF ~conn THEN NullV
  ELSE IF IndexOf(entries, cacheKey, 1) = 0 THEN NullV
  ELSE entries[IndexOf(entries, cacheKey, 1)]

\* entries[cacheKey] = cacheEntry: in place for a key that is there, else last
Assign(entries, entry) ==
  IF IndexOf(entries, entry.key, 1) = 0 THEN Append(entries, entry)
  ELSE [entries EXCEPT ![IndexOf(entries, entry.key, 1)] = entry]

\* Oldest that takes the key inserted first
Oldest_InsertedFirst(entries) == 1

\* the first position with the least timestamp: the head of the sorted keys
Oldest(entries) ==
  CHOOSE k \in 1..Len(entries) :
    /\ \A j \in 1..Len(entries) : entries[k].timestamp <= entries[j].timestamp
    /\ \A j \in 1..(k - 1) : entries[j].timestamp > entries[k].timestamp

\* sortedKeys.slice(0, keys.length - 1000).forEach(key => delete entries[key])
RECURSIVE Evict(_)
Evict(entries) ==
  IF Len(entries) <= CacheCap THEN entries
  ELSE Evict(RemoveAt(entries, Oldest(entries)))

\* storeInRedis: the entries afterwards and the value returned; ok is FALSE
\* when chrome.storage.local throws
storeInRedis(cacheKey, prompt, response, embedding, conn, ok, entries, timestamp) ==
  IF ~conn \/ ~ok THEN [ret |-> FALSE, entries |-> entries, evicted |-> {}]
  ELSE LET assigned == Assign(entries,
             [key |-> cacheKey, prompt |-> prompt, response |-> response,
              embedding |-> embedding, timestamp |-> timestamp])
       IN [ret |-> TRUE, entries |-> Evict(assigned),
           evicted |-> Range(assigned) \ Range(Evict(assigned))]

\* the loop of semanticSearch from position k on, best being the best match
\* so far (null at first) and bestSimilarity its similarity (0 at first)
RECURSIVE SearchFrom(_, _, _, _, _, _)
SearchFrom(entries, k, queryEmbedding, threshold, bestMatch, bestSimilarity) ==
  IF k > Len(entries) THEN bestMatch
  ELSE LET similarity == Similarity(queryEmbedding, entries[k].embedding)
       IN IF /\ entries[k].embedding # NullV
             /\ FloatAtLeast(similarity, threshold)
             /\ FloatGreater(similarity, bestSimilarity)
          THEN SearchFrom(entries, k + 1, queryEmbedding, threshold,
                          [t |-> "object", entry |-> entries[k], similarity |-> similarity],
                          similarity)
          ELSE SearchFrom(entries, k + 1, queryEmbedding, threshold, bestMatch,
                          bestSimilarity)

\* semanticSearch: the best match, null without a query, storage or match
semanticSearch(queryEmbedding, threshold, conn, entries) ==
  IF queryEmbedding = NullV \/ ~conn THEN NullV
  ELSE SearchFrom(entries, 1, queryEmbedding, threshold, NullV, FloatZero)

\* --------------------------------------------------------- cachedOpenAICall
Prompts == {<<"a">>, <<"b">>}
\* 0.85
DefaultThreshold == FloatDiv(17, FloatOf(20))
ZeroThreshold == FloatZero
\* the storage connection, useSemanticCache and semanticThreshold of a call
CacheSettings ==
  {[conn |-> TRUE, useSemanticCache |-> TRUE, semanticThreshold |-> DefaultThreshold],
   [conn |-> TRUE, useSemanticCache |-> TRUE, semanticThreshold |-> ZeroThreshold],
   [conn |-> TRUE, useSemanticCache |-> FALSE, semanticThreshold |-> DefaultThreshold],
   [conn |-> FALSE, useSemanticCache |-> TRUE, semanticThreshold |-> DefaultThreshold]}
\* the vector the embedding endpoint gives for a text
EmbeddingOf(text) == IF text = <<"a">> THEN Arr(<<1, 0>>) ELSE Arr(<<4, 3>>)
\* generateEmbedding: the vector, or null when the request fails
generateEmbedding(text) == {EmbeddingOf(text), NullV}
\* what the completion endpoint can answer a request with: the content
\* names the prompt and the model asked for
CompletionOf(request) ==
  <<"r", ":">> \o request.prompt \o (IF request.model = Undef THEN <<>> ELSE request.model.s)
CompletionResponses(request) ==
  {[kind |-> "reject"], [kind |-> "status"], [kind |-> "nochoices"],
   [kind |-> "content", content |-> CompletionOf(request)]}

\* params as the caller passes them: one base request and the requests that
\* differ from it in one of prompt, model, temperature, max_tokens and
\* system prompt
BaseRequest ==
  [prompt |-> <<"a">>, model |-> Undef, temperature |-> Undef, max_tokens |-> Undef,
   systemPrompt |-> <<>>]
Requests ==
  {BaseRequest,
   [BaseRequest EXCEPT !.prompt = <<"b">>],
   [BaseRequest EXCEPT !.model = Str(OtherModel)],
   [BaseRequest EXCEPT !.temperature = LowTemperature],
   [BaseRequest EXCEPT !.temperature = Zero],
   [BaseRequest EXCEPT !.max_tokens = FiftyTokens],
   [BaseRequest EXCEPT !.systemPrompt = <<"s">>]}

\* the requests of the calls that go on to the endpoints and the storage
CacheRequests ==
  {BaseRequest,
   [BaseRequest EXCEPT !.prompt = <<"b">>],
   [BaseRequest EXCEPT !.model = Str(OtherModel)]}

\* a destructuring default: it replaces undefined only
Default(v, d) == IF v = Undef THEN d ELSE v

\* the cache key cachedOpenAICall computes for its params
CacheKeyOf(request) ==
  generateCacheKey(request.prompt,
    [model |-> Default(request.model, Str(DefaultModel)),
     temperature |-> Default(request.temperature, DefaultTemperature),
     max_tokens |-> request.max_tokens,
     systemPrompt |-> Str(request.systemPrompt)])

\* the key of every request
CacheKeys == [request \in Requests |-> CacheKeyOf(request)]

ErrKeyRequired == <<"OpenAI API key is required">>
CacheHit(response) == Return([t |-> "object", cached |-> TRUE, content |-> response])
CacheMiss(responseContent) ==
  Return([t |-> "object", cached |-> FALSE, content |-> responseContent])

cacheFrame == <<orchVars, gen, cat, res, search, cos, messageHistory>>

\* AfterExactMiss that asks for the embedding whatever useSemanticCache is
AfterExactMiss_AlwaysSemantic(c) == [c EXCEPT !.pc = "embedding", !.calls = <<"embedding">>]

\* after an exact miss: the embedding request when semantic search is
\* enabled, else the completion request
AfterExactMiss(c) ==
  IF c.useSemanticCache
  THEN [c EXCEPT !.pc = "embedding", !.calls = <<"embedding">>]
  ELSE [c EXCEPT !.pc = "completion", !.calls = <<"completion">>]

\* cachedOpenAICall is called with one of the requests: the key, the
\* exact-match lookup
cachedOpenAICall(requests) ==
  /\ cacheCall.pc \in {"idle", "done"}
  /\ \E request \in requests, hasKey \in BOOLEAN, settings \in CacheSettings :
       LET conn == settings.conn
           c == [pc |-> "done", request |-> request, conn |-> conn,
                 useSemanticCache |-> settings.useSemanticCache,
                 semanticThreshold |-> settings.semanticThreshold,
                 cacheKey |-> CacheKeys[request], steps |-> <<>>, calls |-> <<>>,
                 content |-> <<>>, stored |-> FALSE,
                 prior |-> IF /\ cacheCall.pc = "done"
                              /\ cacheCall.stored
                              /\ cacheCall.request = request
                           THEN Str(cacheCall.content) ELSE NullV,
                 result |-> Return(Undef)]
           exactCache == getFromRedis(c.cacheKey, conn, langcache_entries)
       IN cacheCall' =
            IF ~hasKey THEN [c EXCEPT !.result = Throw(ErrKeyRequired)]
            ELSE IF exactCache # NullV /\ exactCache.response # <<>>
            THEN [c EXCEPT !.steps = <<"exact">>, !.result = CacheHit(exactCache.response)]
            ELSE AfterExactMiss([c EXCEPT !.steps = <<"exact">>])
  /\ UNCHANGED <<cacheFrame, langcache_entries, now, evicted>>

CacheCall == cachedOpenAICall(CacheRequests)

\* the embedding endpoint answers the lookup: the semantic search
CacheEmbeddingAnswer ==
  /\ cacheCall.pc = "embedding"
  /\ \E queryEmbedding \in generateEmbedding(cacheCall.request.prompt) :
       LET c == cacheCall
           semanticCache == semanticSearch(queryEmbedding, c.semanticThreshold, c.conn,
                                           langcache_entries)
       IN cacheCall' =
            IF queryEmbedding = NullV
            THEN [c EXCEPT !.pc = "completion", !.calls = Append(@, "completion")]
            ELSE IF semanticCache # NullV /\ semanticCache.entry.response # <<>>
            THEN [c EXCEPT !.pc = "done", !.steps = Append(@, "semantic"),
                           !.result = CacheHit(semanticCache.entry.response)]
            ELSE [c EXCEPT !.pc = "completion", !.steps = Append(@, "semantic"),
                           !.calls = Append(@, "completion")]
  /\ UNCHANGED <<cacheFrame, langcache_entries, now, evicted>>

\* the entry is stored: storeInRedis with the time it reads
CacheStore(c, embedding) ==
  \E ok \in BOOLEAN, timestamp \in {now, now + 1} :
    LET r == storeInRedis(c.cacheKey, c.request.prompt, c.content, embedding, c.conn, ok,
                          langcache_entries, timestamp)
    IN /\ timestamp <= MaxNow
       /\ now' = timestamp
       /\ langcache_entries' = r.entries
       /\ evicted' = r.evicted
       /\ cacheCall' = [c EXCEPT !.pc = "done", !.steps = Append(@, "store"),
                                 !.stored = r.ret, !.result = CacheMiss(c.content)]

\* the completion endpoint answers
CacheCompletionAnswer ==
  /\ cacheCall.pc = "completion"
  /\ \E resp \in CompletionResponses(cacheCall.request) :
       LET c == [cacheCall EXCEPT !.steps = Append(@, "completion"),
                   !.content = IF resp.kind = "content" THEN resp.content ELSE <<>>]
       IN IF resp.kind \in {"reject", "status"}
          THEN /\ cacheCall' = [c EXCEPT !.pc = "done",
                                  !.result = Throw(IF resp.kind = "reject" THEN ErrFetch
                                                   ELSE ErrApi)]
               /\ UNCHANGED <<langcache_entries, now, evicted>>
          ELSE IF c.content = <<>>
          THEN /\ cacheCall' = [c EXCEPT !.pc = "done", !.result = CacheMiss(<<>>)]
               /\ UNCHANGED <<langcache_entries, now, evicted>>
          ELSE IF c.useSemanticCache
          THEN /\ cacheCall' = [c EXCEPT !.pc = "storing", !.calls = Append(@, "embedding")]
               /\ UNCHANGED <<langcache_entries, now, evicted>>
          ELSE CacheStore(c, NullV)
  /\ UNCHANGED cacheFrame

\* the embedding endpoint answers for the entry to store
CacheStoreEmbeddingAnswer ==
  /\ cacheCall.pc = "storing"
  /\ \E embedding \in generateEmbedding(cacheCall.request.prompt) :
       CacheStore(cacheCall, embedding)
  /\ UNCHANGED cacheFrame

NextCache ==
  \/ CacheCall
  \/ CacheEmbeddingAnswer
  \/ CacheCompletionAnswer
  \/ CacheStoreEmbeddingAnswer
\* the library on a page without a compose field
InitNoPage ==
  /\ Init
  /\ dom = [f \in Fields |-> "detached"]
  /\ storedCategories = Undef
SpecCache == InitNoPage /\ [][NextCache]_vars

\* storeInRedis alone: any sequence of stores
Store ==
  /\ \E request \in Requests, conn \in BOOLEAN, ok \in BOOLEAN, timestamp \in {now, now + 1} :
     \E embedding \in generateEmbedding(request.prompt) :
       LET r == storeInRedis(CacheKeys[request], request.prompt, CompletionOf(request),
                             embedding, conn, ok, langcache_entries, timestamp)
       IN /\ timestamp <= MaxNow
          /\ now' = timestamp
          /\ langcache_entries' = r.entries
          /\ evicted' = r.evicted
  /\ UNCHANGED <<cacheFrame, cacheCall>>
SpecStore == InitNoPage /\ [][Store]_vars

\* semanticSearch alone, over what the stores have left
SearchQueries == Vectors \cup {NullV}
SearchThresholds == {DefaultThreshold, ZeroThreshold}
SearchCall ==
  /\ search.pc = "idle"
  /\ \E queryEmbedding \in SearchQueries, threshold \in SearchThresholds, conn \in BOOLEAN :
       search' = [pc |-> "done", queryEmbedding |-> queryEmbedding, threshold |-> threshold,
                  conn |-> conn,
                  result |-> semanticSearch(queryEmbedding, threshold, conn,
                                            langcache_entries)]
  /\ UNCHANGED <<orchVars, gen, cat, res, cacheCall, cos, messageHistory, langcache_entries,
                 now, evicted>>
\* the caller has the result
SearchReturn ==
  /\ search.pc = "done"
  /\ search' = SearchIdle
  /\ UNCHANGED <<orchVars, gen, cat, res, cacheCall, cos, messageHistory, langcache_entries,
                 now, evicted>>
\* a store between two searches
SearchStore == search.pc = "idle" /\ Store
NextSearch ==
  \/ SearchStore
  \/ SearchCall
  \/ SearchReturn
SpecSearch == InitNoPage /\ [][NextSearch]_vars

\* the first step of cachedOpenAICall alone, over all the requests
KeyCall == cachedOpenAICall(Requests)
SpecKey == Init /\ [][KeyCall]_vars

\* ------------------------------------------------------------ cosineSimilarity alone
\* the vectors cosineSimilarity is called with: the cache's, a vector of equal
\* components, its opposite, a zero vector, the empty one and a missing one
CosVectors ==
  Vectors \cup {Arr(<<1, 1, 1>>), Arr(<<-2, -2, -2>>), Arr(<<0, 0>>), Arr(<<-1, 0>>),
                Arr(<<2, 3>>), Arr(<<>>), NullV}
CosCall ==
  /\ cos.pc = "idle"
  /\ \E vec1 \in CosVectors, vec2 \in CosVectors :
       cos' = [pc |-> "done", vec1 |-> vec1, vec2 |-> vec2,
               result |-> cosineSimilarity(vec1, vec2)]
  /\ UNCHANGED <<orchVars, gen, cat, res, langcache_entries, cacheCall, now, evicted, search,
                 messageHistory>>
\* the caller has the result
CosReturn ==
  /\ cos.pc = "done"
  /\ cos' = CosIdle
  /\ UNCHANGED <<orchVars, gen, cat, res, langcache_entries, cacheCall, now, evicted, search,
                 messageHistory>>
NextCos ==
  \/ CosCall
  \/ CosReturn
SpecCos == InitNoPage /\ [][NextCos]_vars

\* ------------------------------------------------------------ storeMessageHistory
\* the length the history is cut to (100 in the source)
maxHistory == 3
\* the stores of one behaviour
MaxStored == 5
Messages == {<<"m">>, <<"n">>}
\* result.messageHistory || []
HistoryRead == IF messageHistory = Undef THEN <<>> ELSE messageHistory.items
\* the stores that have written the history
Stored == IF Len(HistoryRead) = 0 THEN 0 ELSE HistoryRead[1].id
\* the list with the entry in front, cut to maxHistory
Unshift_AtEnd(history, historyEntry) ==
  LET unshifted == history \o <<historyEntry>>
  IN IF Len(unshifted) > maxHistory THEN SubSeq(unshifted, 1, maxHistory) ELSE unshifted
\* history.unshift(historyEntry) and history.splice(maxHistory)
Unshift(history, historyEntry) ==
  LET unshifted == <<historyEntry>> \o history
  IN IF Len(unshifted) > maxHistory THEN SubSeq(unshifted, 1, maxHistory) ELSE unshifted
\* One call of storeMessageHistory, no other call between its read and its
\* write. The id of an entry is the number of the store that wrote it (the
\* source's id is unique by its random part); a failing read or write is
\* caught and leaves the storage as it was.
storeMessageHistory ==
  /\ Stored < MaxStored
  /\ \E message \in Messages, timestamp \in {now, now + 1},
        storage \in {"ok", "getFails", "setFails"} :
       /\ timestamp <= MaxNow
       /\ now' = timestamp
       /\ messageHistory' =
            IF storage = "ok"
            THEN Arr(Unshift(HistoryRead, [id |-> Stored + 1, timestamp |-> timestamp,
                                           message |-> message]))
            ELSE messageHistory
  /\ UNCHANGED <<orchVars, gen, cat, res, langcache_entries, cacheCall, evicted, search, cos>>
SpecHist == InitNoPage /\ [][storeMessageHistory]_vars

\* ------------------------------------------- storeMessageHistory inside a run
\* the pages of two conversations, each with its own field
RunFields == {1, 2}

storeFrame ==
  <<dom, startTimers, chatCheckTimeout, config, refused, gen, cat, res,
    langcache_entries, cacheCall, evicted, search, cos, single>>

\* the entry a run makes of its draft; the id is unique by the clock and the
\* random part of the source's id
HistoryEntry(run, timestamp) ==
  [id |-> timestamp, timestamp |-> timestamp, message |-> run.message]

\* StoreRead whose failure reaches the catch block of the run
StoreRead_Rethrows(f, i) ==
  /\ runs[f][i].pc = "storing"
  /\ UNCHANGED storeFrame
  /\ \E getOk \in (IF now < MaxNow THEN BOOLEAN ELSE {FALSE}) :
       IF getOk
       THEN /\ now' = now + 1
            /\ Continue(f, i,
                 [runs[f][i] EXCEPT
                    !.pc = "saving",
                    !.history = Unshift(HistoryRead, HistoryEntry(runs[f][i], now + 1))])
            /\ UNCHANGED messageHistory
       ELSE /\ UNCHANGED <<now, messageHistory>>
            /\ Fail(f, i, <<"storage error">>)

\* step 8 up to its second await: chrome.storage.local.get settles.  Settled
\* with a list, the run makes its entry, puts it in front of the list it has
\* read and calls chrome.storage.local.set.  Rejected (as is every read
\* after MaxNow), the error is caught and step 9 follows at once
StoreRead(f, i) ==
  /\ runs[f][i].pc = "storing"
  /\ UNCHANGED storeFrame
  /\ \E getOk \in (IF now < MaxNow THEN BOOLEAN ELSE {FALSE}) :
       IF getOk
       THEN /\ now' = now + 1
            /\ Continue(f, i,
                 [runs[f][i] EXCEPT
                    !.pc = "saving",
                    !.history = Unshift(HistoryRead, HistoryEntry(runs[f][i], now + 1))])
            /\ UNCHANGED messageHistory
       ELSE /\ UNCHANGED <<now, messageHistory>>
            /\ \E domOk \in BOOLEAN :
                 Finish(f, i, "draft", runs[f][i].message, domOk, FALSE)

\* StoreWrite that reads the list again when it writes
StoreWrite_ReadsAgain(f, i) ==
  /\ runs[f][i].pc = "saving"
  /\ UNCHANGED <<storeFrame, now>>
  /\ \E setOk \in BOOLEAN, domOk \in BOOLEAN :
       /\ messageHistory' = IF setOk
                             THEN Arr(Unshift(HistoryRead, runs[f][i].history[1]))
                             ELSE messageHistory
       /\ Finish(f, i, "draft", runs[f][i].message, domOk, setOk)

\* the rest of step 8 and step 9: chrome.storage.local.set settles, stored
\* or rejected (the error is caught); then insertMessage and the finally block
StoreWrite(f, i) ==
  /\ runs[f][i].pc = "saving"
  /\ UNCHANGED <<storeFrame, now>>
  /\ \E setOk \in BOOLEAN, domOk \in BOOLEAN :
       /\ messageHistory' = IF setOk THEN Arr(runs[f][i].history) ELSE messageHistory
       /\ Finish(f, i, "draft", runs[f][i].message, domOk, setOk)

\* a run of generateAndInsertMessage goes on from one await to the next
RunStepStoring(f) ==
  \E i \in 1..Len(runs[f]) :
    \/ RetryTimer(f, i)
    \/ SummarizeDone(f, i)
    \/ ResearchDone(f, i)
    \/ ClassifyDone(f, i)
    \/ GenerateDone(f, i)
    \/ StoreRead(f, i)
    \/ StoreWrite(f, i)

\* a run that has reached step 8: the recipient found at the first attempt, no
\* chat container, a research that returned an error, the default category
\* and the draft of the relay
StoringRun ==
  [ExtractionStep(NewRun, "Jane Doe", FALSE) EXCEPT
     !.pc = "storing", !.researchResults = ResearchError, !.enrich = {"research"},
     !.category = Str(RecruiterInbound), !.message = DraftCache, !.keys = {StoredKey}]

\* two conversations are open when the script is loaded; the run for the
\* field of the second has reached step 8, the start timers of the first are
\* still pending
InitRuns ==
  /\ dom = [f \in RunFields |-> "visible"]
  /\ content = [f \in RunFields |-> <<>>]
  /\ processedInputs = {}
  /\ messageGenerationInProgress = {2}
  /\ startTimers = [f \in RunFields |-> IF f = 1 THEN StartupScans ELSE 0]
  /\ runs = [f \in RunFields |-> IF f = 1 THEN <<>> ELSE <<StoringRun>>]
  /\ insertTimers = [f \in RunFields |-> {}]
  /\ chatCheckTimeout = NoTimer
  /\ localKey = None
  /\ storedKey = StoredKey
  /\ langCacheCreds = AllSet
  /\ storedCategories \in {Undef, Arr(<<>>)}
  /\ domOps = [f \in RunFields |-> {}]
  /\ writes = [f \in RunFields |-> <<>>]
  /\ outcome = [f \in RunFields |-> NoOutcome]
  /\ refused = {}
  /\ gen = GenIdle
  /\ cat = CatIdle
  /\ InitLib
  /\ page = BlankPage

NextRuns ==
  \/ \E f \in RunFields : StartTimer(f)
  \/ \E f \in RunFields : RunStepStoring(f)

SpecRuns == InitRuns /\ [][NextRuns]_vars

\* two conversations are open, the one of field 1 first in the document; the
\* run for field 1 has reached step 8, a start timer of field 2 is pending
InitForms ==
  /\ dom = [f \in RunFields |-> "visible"]
  /\ content = [f \in RunFields |-> <<>>]
  /\ processedInputs = {}
  /\ messageGenerationInProgress = {1}
  /\ startTimers = [f \in RunFields |-> IF f = 2 THEN 1 ELSE 0]
  /\ runs = [f \in RunFields |-> IF f = 1 THEN <<StoringRun>> ELSE <<>>]
  /\ insertTimers = [f \in RunFields |-> {}]
  /\ chatCheckTimeout = NoTimer
  /\ localKey = None
  /\ storedKey = StoredKey
  /\ langCacheCreds = AllSet
  /\ storedCategories = Undef
  /\ domOps = [f \in RunFields |-> {}]
  /\ writes = [f \in RunFields |-> <<>>]
  /\ outcome = [f \in RunFields |-> NoOutcome]
  /\ refused = {}
  /\ gen = GenIdle
  /\ cat = CatIdle
  /\ InitLib
  /\ page = BlankPage

SpecForms == InitForms /\ [][NextRuns]_vars


\* --------------------------------------------------------------- extractors
\* three of the selectors of nameSelectors, in the order of the list
nameSelectors == <<"div.msg-s-message-list__name", "main h2", "[role=main] h1">>
\* text.length < 100
NameLimit == 100

UpperLetters ==
  <<"A","B","C","D","E","F","G","H","I","J","K","L","M",
    "N","O","P","Q","R","S","T","U","V","W","X","Y","Z">>
LowerLetters ==
  <<"a","b","c","d","e","f","g","h","i","j","k","l","m",
    "n","o","p","q","r","s","t","u","v","w","x","y","z">>
Among(letters, c) == \E k \in 1..Len(letters) : letters[k] = c
Counterpart(letters, others, c) ==
  IF Among(letters, c)
  THEN <<others[CHOOSE k \in 1..Len(letters) : letters[k] = c]>>
  ELSE <<c>>
LowerLetter(c) == Counterpart(UpperLetters, LowerLetters, c)
UpperLetter(c) == Counterpart(LowerLetters, UpperLetters, c)
\* text.toLowerCase() and text.toUpperCase() of a name
lowerText(text) == SeqMap(LowerLetter, text)
toUpperCase(text) == SeqMap(UpperLetter, text)
\* String.prototype.startsWith
startsWith(s, prefix) == Len(s) >= Len(prefix) /\ SubSeq(s, 1, Len(prefix)) = prefix

Linkedin == <<"l","i","n","k","e","d","i","n">>
Messaging == <<"m","e","s","s","a","g","i","n","g">>
Conversation == <<"c","o","n","v","e","r","s","a","t","i","o","n">>
NewMessage == <<"n","e","w"," ","m","e","s","s","a","g","e">>
Search == <<"s","e","a","r","c","h">>
Filter == <<"f","i","l","t","e","r">>

\* isUIText of the selector loop
isUIText(lower) ==
  \/ lower \in {Linkedin, Messaging, Conversation, NewMessage, Search}
  \/ startsWith(lower, Linkedin \o <<" ">>)
  \/ includes(lower, Linkedin \o <<" ">> \o Messaging)
  \/ includes(lower, Linkedin \o <<" ">> \o Conversation)

\* /^[a-zA-Z\s\-'\.]+$/
NameChar(c) ==
  Among(UpperLetters, c) \/ Among(LowerLetters, c) \/ IsSpace(c) \/ c \in {"-", "'", "."}
\* looksLikeName of the selector loop: not all caps unless very short
looksLikeName(text) ==
  /\ text # <<>>
  /\ \A k \in 1..Len(text) : NameChar(text[k])
  /\ Len(text) >= 2
  /\ (Len(text) <= 3 \/ toUpperCase(text) # text)

\* the text the selector loop takes from an element: its textContent, else
\* its aria-label, else its title, trimmed (an attribute that is absent is
\* the empty text here: the tests treat both alike)
ElementText(element) ==
  IF Trim(element.textContent) # <<>> THEN Trim(element.textContent)
  ELSE IF Trim(element.ariaLabel) # <<>> THEN Trim(element.ariaLabel)
  ELSE Trim(element.title)

\* the validation of the selector loop
ValidName(text) ==
  /\ Len(text) > 0
  /\ Len(text) < NameLimit
  /\ ~isUIText(lowerText(text))
  /\ looksLikeName(text)

NoName == [name |-> <<>>, usedSelector |-> "none"]

\* the element of the k-th selector gives a valid name
Valid(matches, k) ==
  matches[k].kind = "element" /\ ValidName(ElementText(matches[k]))

\* the selector loop without its break: a later valid match replaces the name
RECURSIVE SelectorLoop_NoBreak(_, _)
SelectorLoop_NoBreak(matches, k) ==
  IF k > Len(matches) THEN NoName
  ELSE LET later == SelectorLoop_NoBreak(matches, k + 1)
       IN IF later # NoName THEN later
          ELSE IF Valid(matches, k)
          THEN [name |-> ElementText(matches[k]), usedSelector |-> nameSelectors[k]]
          ELSE NoName

\* the selector loop from the k-th selector on: matches[k] is what
\* document.querySelector finds for it (an element, nothing, or a thrown
\* error, which the loop skips); the first valid text ends the loop
RECURSIVE SelectorLoop(_, _)
SelectorLoop(matches, k) ==
  IF k > Len(matches) THEN NoName
  ELSE IF Valid(matches, k)
  THEN [name |-> ElementText(matches[k]), usedSelector |-> nameSelectors[k]]
  ELSE SelectorLoop(matches, k + 1)

\* the test of the search among the headings of the conversation container
BroadOk(text) ==
  /\ Len(text) > 1
  /\ Len(text) < NameLimit
  /\ \A word \in {Linkedin, Messaging, Conversation, NewMessage, Search} :
       ~includes(lowerText(text), word)

\* the test of the search among the headings above the message form
ViewportOk(text) ==
  /\ Len(text) > 1
  /\ Len(text) < NameLimit
  /\ lowerText(text) \notin {Linkedin, Messaging, Conversation, NewMessage, Search, Filter}
  /\ ~startsWith(lowerText(text), Linkedin)

\* the test of a fallback search
HeadingOk(searchKind, text) ==
  IF searchKind = "broad-search" THEN BroadOk(text) ELSE ViewportOk(text)

\* the first heading whose trimmed text passes the test of the search, or no text
RECURSIVE FirstHeading(_, _)
FirstHeading(searchKind, headings) ==
  IF headings = <<>> THEN <<>>
  ELSE IF HeadingOk(searchKind, Trim(Head(headings))) THEN Trim(Head(headings))
  ELSE FirstHeading(searchKind, Tail(headings))

\* the searches that follow when the selector loop has found no name
Fallback(p) ==
  IF ~p.form THEN NoName
  ELSE IF FirstHeading("broad-search", p.headings) # <<>>
  THEN [name |-> FirstHeading("broad-search", p.headings), usedSelector |-> "broad-search"]
  ELSE IF FirstHeading("viewport-search", p.above) # <<>>
  THEN [name |-> FirstHeading("viewport-search", p.above), usedSelector |-> "viewport-search"]
  ELSE NoName

\* the byline loop: the trimmed text of the first byline element, or null
Byline(p) ==
  IF p.byline.kind = "element" /\ Trim(p.byline.textContent) # <<>>
  THEN Str(Trim(p.byline.textContent))
  ELSE NullV

\* extractRecipientInfo: the value returned (null without a name) and the
\* document afterwards
extractRecipientInfo(p) ==
  LET byName == SelectorLoop(p.names, 1)
      found == IF byName # NoName THEN byName ELSE Fallback(p)
  IN [value |-> IF found # NoName
                THEN [t |-> "object", name |-> found.name, byline |-> Byline(p),
                      usedSelector |-> found.usedSelector]
                ELSE NullV,
      page |-> p]

\* extractChatHistoryDOM: the chat container or null, and the document
extractChatHistoryDOM(p) ==
  [value |-> IF p.chat.kind = "element" THEN p.chat ELSE NullV, page |-> p]

\* the nodes of the chat container that are not content
NonContent == {"script", "style", "noscript"}
\* the length the serialisation is cut to (10000 in the source)
maxLength == 3

RECURSIVE Strip(_)
Strip(nodes) ==
  IF nodes = <<>> THEN <<>>
  ELSE IF Head(nodes) \in NonContent THEN Strip(Tail(nodes))
  ELSE <<Head(nodes)>> \o Strip(Tail(nodes))

\* htmlContent.substring(0, maxLength) + "..."
Truncate(htmlContent) ==
  IF Len(htmlContent) > maxLength
  THEN SubSeq(htmlContent, 1, maxLength) \o <<"...">>
  ELSE htmlContent

\* a serialisation that removes the nodes from the container itself
Serialize_StripsLive(p) ==
  [value |-> Str(Truncate(Strip(p.chat.children))),
   page |-> [p EXCEPT !.chat.children = Strip(@)]]

\* the serialisation of the summarizer: the container is cloned, the nodes
\* that are not content are removed from the clone, the innerHTML of the
\* clone is cut to maxLength
Serialize(p) ==
  LET clonedContainer == p.chat
      stripped == [clonedContainer EXCEPT !.children = Strip(@)]
  IN [value |-> Str(Truncate(stripped.children)), page |-> p]

El(text, label, title) ==
  [kind |-> "element", textContent |-> text, ariaLabel |-> label, title |-> title]
JoLi == <<"J","o"," ","L","i">>
AlBo == <<" ","A","l"," ","B","o","NL">>
SearchLabel == <<"S","e","a","r","c","h">>
AllCaps == <<"J","O","H","N">>
WithDigit == <<"R","2">>
LongText == [k \in 1..NameLimit |-> "a"]
\* what a selector of the list can find
NameElements ==
  {NoElement, [kind |-> "throws"],
   El(JoLi, <<>>, <<>>), El(AlBo, <<>>, <<>>), El(SearchLabel, <<>>, <<>>),
   El(AllCaps, <<>>, <<>>), El(<<" ">>, <<>>, AlBo), El(LongText, AlBo, <<>>)}
Chats ==
  {NoElement,
   [kind |-> "element", children |-> <<"li">>],
   [kind |-> "element", children |-> <<"script", "li", "style", "li", "noscript", "li", "li">>]}
\* the conversation views: the headers, and the views without a header name
Pages ==
  [names : [1..Len(nameSelectors) -> NameElements], form : {FALSE}, headings : {<<>>},
   above : {<<>>}, byline : {NoElement, El(<<"C","E","O">>, <<>>, <<>>)}, chat : {NoElement}]
  \cup
  [names : {<<NoElement, El(WithDigit, <<>>, <<>>), [kind |-> "throws"]>>},
   form : BOOLEAN, headings : {<<>>, <<SearchLabel, WithDigit>>},
   above : {<<>>, <<Filter, AlBo>>}, byline : {NoElement}, chat : Chats]

extFrame ==
  <<dom, content, markers, timers, runs, config, domOps, writes, outcome, refused, gen, cat, lib,
    credsCall, prefs, more>>

\* extractRecipientInfo is called and returns
RecipientCall ==
  /\ ext.pc = "idle"
  /\ ext' = [pc |-> "done", extractor |-> "extractRecipientInfo", page |-> page,
             value |-> extractRecipientInfo(page).value]
  /\ page' = extractRecipientInfo(page).page
  /\ UNCHANGED extFrame

\* extractChatHistoryDOM is called and returns
ChatDomCall ==
  /\ ext.pc = "idle"
  /\ ext' = [pc |-> "done", extractor |-> "extractChatHistoryDOM", page |-> page,
             value |-> extractChatHistoryDOM(page).value]
  /\ page' = extractChatHistoryDOM(page).page
  /\ UNCHANGED extFrame

\* findChatInputFields is called and returns
FieldsCall ==
  /\ ext.pc = "idle"
  /\ ext' = [pc |-> "done", extractor |-> "findChatInputFields", page |-> page,
             value |-> findChatInputFields]
  /\ UNCHANGED <<extFrame, page>>

\* extractChatHistoryInfo serialises the container it was given
SerializeCall ==
  /\ ext.pc = "idle"
  /\ page.chat.kind = "element"
  /\ ext' = [pc |-> "done", extractor |-> "extractChatHistoryInfo", page |-> page,
             value |-> Serialize(page).value]
  /\ page' = Serialize(page).page
  /\ UNCHANGED extFrame

\* the caller has the value
ExtReturn ==
  /\ ext.pc = "done"
  /\ ext' = ExtIdle
  /\ UNCHANGED <<extFrame, page>>

\* a conversation view is open, with the markers of the field as a run may
\* have left them
InitExtract ==
  /\ dom \in [Fields -> DomStates]
  /\ content = [f \in Fields |-> <<>>]
  /\ processedInputs \in SUBSET Fields
  /\ messageGenerationInProgress \in SUBSET Fields
  /\ startTimers = [f \in Fields |-> 0]
  /\ runs = [f \in Fields |-> <<>>]
  /\ insertTimers = [f \in Fields |-> {}]
  /\ chatCheckTimeout = NoTimer
  /\ localKey = None
  /\ storedKey = StoredKey
  /\ langCacheCreds = AllSet
  /\ storedCategories = Undef
  /\ domOps = [f \in Fields |-> {}]
  /\ writes = [f \in Fields |-> <<>>]
  /\ outcome = [f \in Fields |-> NoOutcome]
  /\ refused = {}
  /\ gen = GenIdle
  /\ cat = CatIdle
  /\ InitLib
  /\ page \in Pages

NextExtract == RecipientCall \/ ChatDomCall \/ FieldsCall \/ SerializeCall \/ ExtReturn
SpecExtract == InitExtract /\ [][NextExtract]_vars

\* ------------------------------------------------- categories and preferences
\* .replace(/\s+/g, '_'): every run of whitespace becomes one underscore
RECURSIVE Underscored(_)
Underscored(text) ==
  IF text = <<>> THEN <<>>
  ELSE IF ~IsSpace(Head(text)) THEN <<Head(text)>> \o Underscored(Tail(text))
  ELSE IF Tail(text) # <<>> /\ IsSpace(Head(Tail(text))) THEN Underscored(Tail(text))
  ELSE <<"_">> \o Underscored(Tail(text))

\* category.toLowerCase().replace(/\s+/g, '_')
categoryKey(category) == Underscored(lowerText(category))

\* the changes the user makes to the cards before they are rendered anew
MaxEdits == 1
\* one preference stands for the eight of a PreferenceSet
Tones == {"professional", "casual"}
DEFAULT_PREFERENCES == [tone |-> "professional"]

\* result.categoryPreferences || {}
PreferencesOf(stored) == IF stored = Undef THEN <<>> ELSE stored.map
Obj(map) == [t |-> "object", map |-> map]
\* delete preferences[key]
Without(map, key) == [k \in DOMAIN map \ {key} |-> map[k]]

\* step 6 of generateAndInsertMessage: allPreferences[categoryKey] || {...}
userPreferences(category, stored) ==
  IF categoryKey(category) \in DOMAIN PreferencesOf(stored)
  THEN PreferencesOf(stored)[categoryKey(category)]
  ELSE DEFAULT_PREFERENCES

Contains(list, x) == \E k \in 1..Len(list) : list[k] = x

\* createCategoryCard: the card of a category, with a delete button when the
\* name is not in DEFAULT_CATEGORIES as the array is when the card is made;
\* shown is the value the card was made with, tone the value it has now
Card(category, saved, defaults) ==
  [name |-> category, key |-> categoryKey(category),
   tone |-> IF categoryKey(category) \in DOMAIN saved
            THEN saved[categoryKey(category)].tone ELSE DEFAULT_PREFERENCES.tone,
   shown |-> IF categoryKey(category) \in DOMAIN saved
             THEN saved[categoryKey(category)].tone ELSE DEFAULT_PREFERENCES.tone,
   deletable |-> ~Contains(defaults, category)]

\* renderCategoryPreferences: one card per category, in list order
renderCategoryPreferences(categories, saved, defaults) ==
  [k \in 1..Len(categories) |-> Card(categories[k], saved, defaults)]

\* result.categories || DEFAULT_CATEGORIES, the array as the popup has it
CategoriesOr(stored, defaults) == IF Truthy(stored) THEN stored ELSE Arr(defaults)

SalesLeadLower == <<"s", "a", "l", "e", "s", " ", "l", "e", "a", "d">>
\* what the user types into newCategoryName
NewNames == {SalesLead, SalesLeadLower, <<" ">>, <<" ">> \o SalesLead, RecruiterInbound}
\* the category list the popup may find in the store when it is first opened
FoundCategories == {Undef, Arr(<<>>), Str(Sales), Arr(DEFAULT_CATEGORIES)}

prefsFrame ==
  <<dom, content, markers, timers, runs, localKey, storedKey, langCacheCreds, domOps, writes,
    outcome, refused, gen, cat, lib, credsCall, page, ext, more>>

\* initializeUI: the popup is opened; the read of the store may fail
OpenPopup ==
  /\ ~popup.open
  /\ \E getOk \in BOOLEAN :
       LET found == IF getOk THEN CategoriesOr(storedCategories, DEFAULT_CATEGORIES)
                    ELSE Arr(DEFAULT_CATEGORIES)
           valid == found.t = "array" /\ found.items # <<>>
           categories == IF valid THEN found.items ELSE DEFAULT_CATEGORIES
           saved == IF getOk THEN PreferencesOf(categoryPreferences) ELSE <<>>
       IN /\ storedCategories' = IF valid THEN storedCategories ELSE Arr(DEFAULT_CATEGORIES)
          /\ popup' = [open |-> TRUE, existingCategories |-> categories,
                       aliased |-> (~valid \/ ~getOk \/ ~Truthy(storedCategories)),
                       defaults |-> DEFAULT_CATEGORIES,
                       cards |-> renderCategoryPreferences(categories, saved, DEFAULT_CATEGORIES),
                       edits |-> 0]
  /\ UNCHANGED <<prefsFrame, categoryPreferences, contentRead>>

\* the popup is closed: its script and its arrays are gone
ClosePopup ==
  /\ popup.open
  /\ popup' = PopupClosed
  /\ UNCHANGED <<prefsFrame, storedCategories, categoryPreferences, contentRead>>

\* the user changes the select of the k-th card
EditCard(k) ==
  /\ popup.open
  /\ k \in 1..Len(popup.cards)
  /\ popup.edits < MaxEdits
  /\ \E tone \in Tones \ {popup.cards[k].tone} :
       popup' = [popup EXCEPT !.cards[k].tone = tone, !.edits = @ + 1]
  /\ UNCHANGED <<prefsFrame, storedCategories, categoryPreferences, contentRead>>

\* the click handler of addCategoryBtn, as registered last: existingCategories
\* is DEFAULT_CATEGORIES itself when the list came from that constant
AddCategory(typed) ==
  /\ popup.open
  /\ LET categoryName == Trim(typed)
         accepted == categoryName # <<>> /\ ~Contains(popup.existingCategories, categoryName)
         categories == Append(popup.existingCategories, categoryName)
         defaults == IF popup.aliased THEN categories ELSE popup.defaults
     IN IF ~accepted
        THEN UNCHANGED <<storedCategories, popup>>
        ELSE /\ storedCategories' = Arr(categories)
             /\ popup' = [popup EXCEPT
                   !.existingCategories = categories,
                   !.defaults = defaults,
                   !.cards = renderCategoryPreferences(
                               categories, PreferencesOf(categoryPreferences), defaults),
                   !.edits = 0]
  /\ UNCHANGED <<prefsFrame, categoryPreferences, contentRead>>

\* deleteCategory, from the delete button of the k-th card, confirmed
deleteCategory(k) ==
  /\ popup.open
  /\ k \in 1..Len(popup.cards)
  /\ popup.cards[k].deletable
  /\ LET found == CategoriesOr(storedCategories, popup.defaults)
         updatedCategories == SelectSeq(found.items, LAMBDA c : c # popup.cards[k].name)
         preferences == Without(PreferencesOf(categoryPreferences), popup.cards[k].key)
     IN IF found.t # "array"
        THEN UNCHANGED <<storedCategories, categoryPreferences, popup>>
        ELSE /\ storedCategories' = Arr(updatedCategories)
             /\ categoryPreferences' = Obj(preferences)
             /\ popup' = [popup EXCEPT
                   !.existingCategories = updatedCategories,
                   !.aliased = FALSE,
                   !.cards = renderCategoryPreferences(
                               updatedCategories, preferences, popup.defaults),
                   !.edits = 0]
  /\ UNCHANGED <<prefsFrame, contentRead>>

\* document.getElementById(`${categoryKey}_tone`): the first card with the key
FirstCard(cards, key) ==
  cards[CHOOSE k \in 1..Len(cards) :
          cards[k].key = key /\ \A j \in 1..(k - 1) : cards[j].key # key]

\* the preferences saveAllPreferences collects for the categories
Collected(categories, cards) ==
  [key \in {categoryKey(categories[k]) : k \in 1..Len(categories)} |->
     [tone |-> FirstCard(cards, key).tone]]

\* saveAllPreferences with a user name entered; a category without a card
\* or a list that is no array throws, and nothing is saved
saveAllPreferences ==
  /\ popup.open
  /\ LET found == CategoriesOr(storedCategories, popup.defaults)
         throws == \/ found.t # "array"
                   \/ \E k \in 1..Len(found.items) :
                        \A j \in 1..Len(popup.cards) :
                          popup.cards[j].key # categoryKey(found.items[k])
     IN IF throws
        THEN UNCHANGED <<storedCategories, categoryPreferences, popup>>
        ELSE /\ storedCategories' = found
             /\ categoryPreferences' = Obj(Collected(found.items, popup.cards))
             /\ popup' = popup
  /\ UNCHANGED <<prefsFrame, contentRead>>

\* step 6 of a run reads the preferences of the category the classifier gave
PreferencesRead ==
  /\ contentRead.pc = "idle"
  /\ storedCategories.t = "array"
  /\ \E k \in 1..Len(storedCategories.items) :
       contentRead' = [pc |-> "done", what |-> "preferences",
                       found |-> Str(storedCategories.items[k]),
                       value |-> Obj(userPreferences(storedCategories.items[k], categoryPreferences))]
  /\ UNCHANGED <<prefsFrame, storedCategories, categoryPreferences, popup>>

\* the classifier reads the category list
CategoriesRead ==
  /\ contentRead.pc = "idle"
  /\ contentRead' = [pc |-> "done", what |-> "categories", found |-> storedCategories,
                     value |-> CategoriesInUse(storedCategories)]
  /\ UNCHANGED <<prefsFrame, storedCategories, categoryPreferences, popup>>

\* the run goes on with what it has read
ReadReturn ==
  /\ contentRead.pc = "done"
  /\ contentRead' = ReadIdle
  /\ UNCHANGED <<prefsFrame, storedCategories, categoryPreferences, popup>>

InitPrefs ==
  /\ dom = [f \in Fields |-> "detached"]
  /\ content = [f \in Fields |-> <<>>]
  /\ processedInputs = {}
  /\ messageGenerationInProgress = {}
  /\ startTimers = [f \in Fields |-> 0]
  /\ runs = [f \in Fields |-> <<>>]
  /\ insertTimers = [f \in Fields |-> {}]
  /\ chatCheckTimeout = NoTimer
  /\ localKey = None
  /\ storedKey = StoredKey
  /\ langCacheCreds = AllSet
  /\ storedCategories \in FoundCategories
  /\ domOps = [f \in Fields |-> {}]
  /\ writes = [f \in Fields |-> <<>>]
  /\ outcome = [f \in Fields |-> NoOutcome]
  /\ refused = {}
  /\ gen = GenIdle
  /\ cat = CatIdle
  /\ InitLib
  /\ page = BlankPage

\* the cards the popup can hold
CardNumbers == 1..(Len(DEFAULT_CATEGORIES) + Cardinality(NewNames))

\* the popup alone: the user opens it, edits, adds, deletes, saves, closes it
NextPrefs ==
  \/ OpenPopup
  \/ ClosePopup
  \/ \E k \in CardNumbers : EditCard(k)
  \/ \E typed \in NewNames : AddCategory(typed)
  \/ \E k \in CardNumbers : deleteCategory(k)
  \/ saveAllPreferences

\* the reads of the content script while categories are added and deleted
NextReads ==
  \/ OpenPopup
  \/ ClosePopup
  \/ \E typed \in NewNames : AddCategory(typed)
  \/ \E k \in CardNumbers : deleteCategory(k)
  \/ PreferencesRead
  \/ CategoriesRead
  \/ ReadReturn
SpecReads == InitPrefs /\ [][NextReads]_vars
SpecPrefs == InitPrefs /\ [][NextPrefs]_vars

\* ------------------------------------------------------ credentials getters
GoogleKey == "g-local"
GoogleId == "cx-local"
StoredGoogleKey == "g-stored"
StoredGoogleId == "cx-stored"

\* getGoogleApiCredentials: the two globals when both are provisioned, else
\* both values from the settings store; fromStore names the values that were
\* taken from the store
getGoogleApiCredentials(local, stored) ==
  IF Provisioned(local.googleApiKey) /\ Provisioned(local.googleSearchEngineId)
  THEN [googleApiKey |-> local.googleApiKey,
        googleSearchEngineId |-> local.googleSearchEngineId, fromStore |-> {}]
  ELSE [googleApiKey |-> StoredOrNull(stored.googleApiKey),
        googleSearchEngineId |-> StoredOrNull(stored.googleSearchEngineId),
        fromStore |-> {"googleApiKey", "googleSearchEngineId"}]

\* what secrets.js and the settings store can hold
LocalGoogle ==
  [googleApiKey : {None, Empty, Placeholder, GoogleKey},
   googleSearchEngineId : {None, Empty, Placeholder, GoogleId}]
StoredGoogle ==
  [googleApiKey : {None, Empty, StoredGoogleKey},
   googleSearchEngineId : {None, Empty, StoredGoogleId}]

\* getOpenAIApiKey is called and settles
OpenAICall ==
  /\ credsCall.pc = "idle"
  /\ \E local \in KeyLocals \cup {Empty}, stored \in KeyStores \cup {Empty} :
       credsCall' = [pc |-> "done", getter |-> "getOpenAIApiKey",
                 local |-> [openaiApiKey |-> local],
                 stored |-> [openaiApiKey |-> stored],
                 result |-> [openaiApiKey |-> getOpenAIApiKey(local, stored)],
                 fromStore |-> IF Provisioned(local) THEN {} ELSE {"openaiApiKey"}]
  /\ UNCHANGED <<dom, content, markers, timers, runs, config, domOps, writes, outcome, refused,
                 gen, cat, lib, page, ext, prefs, more>>

\* getLangCacheCredentials is called and settles: the three globals or null
LangCacheCall ==
  /\ credsCall.pc = "idle"
  /\ \E local \in CredSets :
       credsCall' = [pc |-> "done", getter |-> "getLangCacheCredentials",
                 local |-> local,
                 stored |-> [url |-> None, apiKey |-> None, id |-> None],
                 result |-> IF getLangCacheCredentials(local) THEN local
                            ELSE [url |-> Null, apiKey |-> Null, id |-> Null],
                 fromStore |-> {}]
  /\ UNCHANGED <<dom, content, markers, timers, runs, config, domOps, writes, outcome, refused,
                 gen, cat, lib, page, ext, prefs, more>>

\* getGoogleApiCredentials is called and settles
GoogleCall ==
  /\ credsCall.pc = "idle"
  /\ \E local \in LocalGoogle, stored \in StoredGoogle :
       LET r == getGoogleApiCredentials(local, stored)
       IN credsCall' = [pc |-> "done", getter |-> "getGoogleApiCredentials",
                    local |-> local, stored |-> stored,
                    result |-> [googleApiKey |-> r.googleApiKey,
                                googleSearchEngineId |-> r.googleSearchEngineId],
                    fromStore |-> r.fromStore]
  /\ UNCHANGED <<dom, content, markers, timers, runs, config, domOps, writes, outcome, refused,
                 gen, cat, lib, page, ext, prefs, more>>

\* the caller has the credentials
CredsReturn ==
  /\ credsCall.pc = "done"
  /\ credsCall' = CredsIdle
  /\ UNCHANGED <<dom, content, markers, timers, runs, config, domOps, writes, outcome, refused,
                 gen, cat, lib, page, ext, prefs, more>>

NextCreds == OpenAICall \/ LangCacheCall \/ GoogleCall \/ CredsReturn
SpecCreds == InitNoPage /\ [][NextCreds]_vars

\* ---------------------------------------------------------- the cache relay
\* src/background.js: the onMessage listener that answers callLangCache.  A URL
\* is a sequence of chunks; "/" is a chunk of its own.
CompletionsPath == <<"/", "chat/completions">>
V1CompletionsPath == <<"/", "v1", "/", "chat/completions">>
LangCacheHost == <<"https://lc.example">>
LangCacheId == <<"id1">>
\* the LANGCACHE_URL values a request can carry
LangCacheUrls ==
  {LangCacheHost,
   LangCacheHost \o <<"/">>,
   LangCacheHost \o CompletionsPath,
   LangCacheHost \o V1CompletionsPath,
   LangCacheHost \o <<"/">> \o LangCacheId \o V1CompletionsPath}
LangCacheIds == {<<>>, LangCacheId}

\* langCacheUrl.replace(/\/$/, "")
baseUrl(langCacheUrl) ==
  IF langCacheUrl # <<>> /\ langCacheUrl[Len(langCacheUrl)] = "/"
  THEN SubSeq(langCacheUrl, 1, Len(langCacheUrl) - 1)
  ELSE langCacheUrl

\* the endpoint that is asked first
endpoint(langCacheUrl) ==
  IF includes(langCacheUrl, V1CompletionsPath) \/ includes(langCacheUrl, CompletionsPath)
  THEN langCacheUrl
  ELSE baseUrl(langCacheUrl) \o V1CompletionsPath

\* endpoint.replace('/v1/chat/completions', '/chat/completions')
RECURSIVE WithoutV1(_)
WithoutV1(url) ==
  IF Len(url) < Len(V1CompletionsPath) THEN url
  ELSE IF SubSeq(url, 1, Len(V1CompletionsPath)) = V1CompletionsPath
  THEN CompletionsPath \o SubSeq(url, Len(V1CompletionsPath) + 1, Len(url))
  ELSE <<Head(url)>> \o WithoutV1(Tail(url))

\* the alternatives of a 404, in the order they are pushed
alternatives(langCacheUrl, langCacheId) ==
  (IF includes(endpoint(langCacheUrl), V1CompletionsPath)
   THEN <<WithoutV1(endpoint(langCacheUrl))>>
   ELSE <<>>)
  \o (IF langCacheId # <<>> /\ ~includes(endpoint(langCacheUrl), langCacheId)
      THEN <<baseUrl(langCacheUrl) \o <<"/">> \o langCacheId \o CompletionsPath,
             baseUrl(langCacheUrl) \o <<"/">> \o langCacheId \o V1CompletionsPath>>
      ELSE <<>>)

\* What fetch delivers for one endpoint:
\*   reject   fetch rejects
\*   status   a non-2xx status; textOk: response.text() settles with the body
\*   badjson  a 2xx status, response.json() rejects
\*   json     a 2xx status and the parsed body in .data (null, or an object
\*            whose .choices is as given)
Completion(c) == [t |-> "object", choices |-> Arr(<<[content |-> c]>>)]
RelayBodies ==
  {NullV, Completion(DraftDirect), Completion(DraftCache)}
    \cup {[t |-> "object", choices |-> c] : c \in {Undef, Str(<<"none">>), Arr(<<>>)}}
RelayFetches ==
  {[kind |-> "reject"], [kind |-> "badjson"]}
    \cup {[kind |-> "status", status |-> s, textOk |-> b] : s \in {404, 500}, b \in BOOLEAN}
    \cup {[kind |-> "json", data |-> d] : d \in RelayBodies}

Err404 == <<"LangCache API error: 404 - All endpoint formats failed.">>

\* data.choices && Array.isArray(data.choices) && data.choices.length > 0
HasChoices(data) == data.choices.t = "array" /\ data.choices.items # <<>>

\* sendResponse({data}) and sendResponse({error})
DataAnswer(data) == [error |-> Undef, data |-> data]
ErrorAnswer(message) == [error |-> Str(message), data |-> Undef]
sendResponse(r, response) ==
  [r EXCEPT !.pc = "answered", !.answers = Append(@, response)]

\* the loop over the alternatives has no more to try
AllFailed(r) == sendResponse(r, ErrorAnswer(Err404))

\* .then(async (response) => ...) and .catch of the first request
thenHandler(r, response) ==
  CASE response.kind = "reject" -> sendResponse(r, ErrorAnswer(ErrFetch))
    [] response.kind = "badjson" -> sendResponse(r, ErrorAnswer(ErrJson))
    [] response.kind = "status" ->
         IF ~response.textOk THEN sendResponse(r, ErrorAnswer(ErrFetch))
         ELSE IF response.status = 404
         THEN IF r.alternatives = <<>> THEN AllFailed(r) ELSE [r EXCEPT !.pc = "alt"]
         ELSE sendResponse(r, ErrorAnswer(ErrRelayApi))
    [] response.kind = "json" ->
         IF response.data = NullV THEN sendResponse(r, ErrorAnswer(ErrType))
         ELSE IF ~HasChoices(response.data)
         THEN sendResponse(r, ErrorAnswer(ErrRelayFormat))
         ELSE sendResponse(r, DataAnswer(response.data))

\* altResponse.ok, the body parses and has choices
AltValid(response) ==
  /\ response.kind = "json"
  /\ response.data # NullV
  /\ HasChoices(response.data)

\* what is kept of an alternative that was asked
Tried(url, response) ==
  [url |-> url, valid |-> AltValid(response),
   data |-> IF AltValid(response) THEN response.data ELSE Undef]

\* a loop that goes on after it has answered
altHandler_KeepsTrying(r, response) ==
  LET t == [r EXCEPT !.tried = Append(@, Tried(r.alternatives[Len(r.tried) + 1], response))]
      u == IF AltValid(response) THEN sendResponse(t, DataAnswer(response.data)) ELSE t
  IN IF Len(t.tried) = Len(t.alternatives) THEN AllFailed(u) ELSE [u EXCEPT !.pc = "alt"]

\* one turn of for (const altEndpoint of alternatives): the answer of the
\* alternative in turn has arrived
altHandler(r, response) ==
  LET t == [r EXCEPT !.tried = Append(@, Tried(r.alternatives[Len(r.tried) + 1], response))]
  IN IF AltValid(response) THEN sendResponse(t, DataAnswer(response.data))
     ELSE IF Len(t.tried) = Len(t.alternatives) THEN AllFailed(t)
     ELSE t

\* the callback of chrome.runtime.sendMessage in callLangCache
Settled(response) ==
  IF Truthy(response.error) THEN [state |-> "rejected", error |-> response.error.s]
  ELSE IF ~Truthy(response.data) \/ ~HasChoices(response.data)
  THEN [state |-> "rejected", error |-> ErrRelayFormat]
  ELSE [state |-> "resolved", value |-> response.data]

relayFrame ==
  <<dom, content, markers, timers, runs, config, domOps, writes, outcome, refused,
    gen, cat, lib, credsCall, page, ext, prefs, conversation>>

\* callLangCache sends the message; the listener asks the first endpoint
RelaySend(langCacheUrl, langCacheId) ==
  /\ relay.pc = "idle"
  /\ relay' = [pc |-> "first", langCacheUrl |-> langCacheUrl, langCacheId |-> langCacheId,
               endpoint |-> endpoint(langCacheUrl),
               alternatives |-> alternatives(langCacheUrl, langCacheId),
               first |-> Undef, tried |-> <<>>, answers |-> <<>>,
               promise |-> [state |-> "pending"]]
  /\ UNCHANGED relayFrame

\* the first request settles
RelayFirst(response) ==
  /\ relay.pc = "first"
  /\ relay' = thenHandler([relay EXCEPT !.first = response], response)
  /\ UNCHANGED relayFrame

\* the request to the alternative in turn settles
RelayAlt(response) ==
  /\ relay.pc = "alt"
  /\ relay' = altHandler(relay, response)
  /\ UNCHANGED relayFrame

\* the callback of sendMessage runs with the answer
RelayCallback ==
  /\ relay.pc = "answered"
  /\ relay.promise.state = "pending"
  /\ relay' = [relay EXCEPT !.pc = "settled", !.promise = Settled(relay.answers[1])]
  /\ UNCHANGED relayFrame

\* the caller has taken the settled promise
RelayReturn ==
  /\ relay.pc = "settled"
  /\ relay' = RelayIdle
  /\ UNCHANGED relayFrame

InitRelay ==
  /\ Init
  /\ dom = [f \in Fields |-> "detached"]
  /\ storedCategories = Undef

\* every request that was begun settles
RelaySettles ==
  \/ \E response \in RelayFetches : RelayFirst(response)
  \/ \E response \in RelayFetches : RelayAlt(response)
  \/ RelayCallback

NextRelay ==
  \/ \E langCacheUrl \in LangCacheUrls, langCacheId \in LangCacheIds :
       RelaySend(langCacheUrl, langCacheId)
  \/ \E response \in RelayFetches : RelayFirst(response)
  \/ \E response \in RelayFetches : RelayAlt(response)
  \/ RelayCallback
  \/ RelayReturn
SpecRelay == InitRelay /\ [][NextRelay]_vars /\ WF_vars(RelaySettles)

\* ================================================================= properties
RunStarts(f) == Len(runs'[f]) > Len(runs[f])
RunEnds(f) == Len(runs'[f]) < Len(runs[f])

C2_OneRunPerField ==
  \A f \in Fields :
    /\ Len(runs[f]) <= 1
    /\ (f \in messageGenerationInProgress) = (Len(runs[f]) = 1)

\* a run is in flight while another start timer for the same, still empty and
\* connected field is pending
C2_Witness ==
  \E f \in Fields :
    /\ Len(runs[f]) = 1
    /\ startTimers[f] > 0
    /\ dom[f] # "detached"
    /\ IsEmptyContent(content[f])

\* C3: the only operations the script applies to a field are focusing it,
\* setting its content and dispatching input events: no send control is
\* clicked, no form submitted, no key event dispatched
C3_NeverSent ==
  \A f \in Fields : domOps[f] \subseteq {"focus", "innerHTML", "input"}

\* a draft was inserted and both follow-up timers have fired
C3_Witness ==
  \E f \in Fields :
    /\ outcome[f].inserted
    /\ insertTimers[f] = {}
    /\ domOps[f] = {"focus", "innerHTML", "input"}

\* C4: a run that has ended ended Inserted or Failed, not both, not neither,
\* and its field is marked processed
C4_ExactlyOneOutcome ==
  \A f \in Fields : outcome[f].ended =>
    /\ outcome[f].inserted # outcome[f].failed
    /\ f \in processedInputs

\* C5: a run has made one, two or three extraction attempts; it waited 1000 ms
\* before the second and 2000 ms before the third and only after an attempt
\* that found nothing; no attempt follows a success; and a run is abandoned
\* at the extraction step only by its third attempt finding nothing, which
\* never ends it Inserted
C5_ThreeAttempts ==
  /\ [](\A f \in Fields : \A i \in 1..Len(runs[f]) :
          LET r == runs[f][i] IN
          /\ r.attempts \in 1..3
          /\ r.pc = "waiting" =>
               /\ r.attempts \in 1..2
               /\ r.recipientInfo = NoRecipient
               /\ r.waits = SubSeq(<<1000, 2000>>, 1, r.attempts)
          /\ r.pc # "waiting" =>
               /\ r.recipientInfo # NoRecipient
               /\ r.waits = SubSeq(<<1000, 2000>>, 1, r.attempts - 1))
  /\ [][\A f \in Fields :
          /\ (Len(runs[f]) = 1 /\ Len(runs'[f]) = 1
                /\ runs[f][1].recipientInfo # NoRecipient)
               => /\ runs'[f][1].attempts = runs[f][1].attempts
                  /\ runs'[f][1].recipientInfo = runs[f][1].recipientInfo
          /\ (RunEnds(f) /\ runs[f][1].pc = "waiting")
               => /\ runs[f][1].attempts = 2
                  /\ ~outcome'[f].inserted
                  /\ outcome'[f].failed =>
                       TextContent(content'[f]) = <<"[Error: ">> \o ErrExtract \o <<"]">>]_vars

\* the third attempt of a run found the recipient, after both waits
C5_Witness ==
  \E f \in Fields :
    /\ Len(runs[f]) = 1
    /\ runs[f][1].attempts = 3
    /\ runs[f][1].waits = <<1000, 2000>>
    /\ runs[f][1].recipientInfo # NoRecipient

\* the content counts as empty: no text but whitespace, or one of the listed
\* markups
EmptyAsSpecified(html) ==
  \/ html \in {<<>>, <<"<p>", "<br>", "</p>">>, <<"<br>">>}
  \/ \A k \in 1..Len(html) : IsTag(html[k]) \/ IsSpace(html[k])

\* C6: when a run starts its field is visible, empty, not marked
\* processed and not in progress
C6_StartsOnlyIfVisible ==
  [][\A f \in Fields : RunStarts(f) =>
       /\ dom[f] = "visible"
       /\ EmptyAsSpecified(content[f])
       /\ f \notin processedInputs
       /\ f \notin messageGenerationInProgress]_vars

\* C6, with the visibility test where the code applies it: when a run starts its field is connected to the document,
\* empty, not marked processed and not in progress; the field was visible,
\* not processed and not in progress when the scan set the start timer
C6_StartsOnlyIfConnected ==
  [][\A f \in Fields :
       /\ RunStarts(f) =>
            /\ dom[f] # "detached"
            /\ EmptyAsSpecified(content[f])
            /\ f \notin processedInputs
            /\ f \notin messageGenerationInProgress
            /\ startTimers'[f] = startTimers[f] - 1
       /\ startTimers'[f] > startTimers[f] =>
            /\ dom[f] = "visible"
            /\ f \notin processedInputs
            /\ f \notin messageGenerationInProgress]_vars

\* a run is at its first steps on a field that is hidden
C6_Witness ==
  \E f \in Fields :
    /\ Len(runs[f]) = 1
    /\ runs[f][1].pc \in {"summarizing", "researching", "waiting"}
    /\ dom[f] = "hidden"

\* the three cache credentials are configured
CacheConfigured(c) == c.url = "set" /\ c.apiKey = "set" /\ c.id = "set"

\* the cache path failed: the relay reported an error or answered without a
\* usable completion
CacheFailed(relayResp) ==
  \/ relayResp.kind \in {"lastError", "error", "invalid"}
  \/ relayResp.kind = "data" /\ relayResp.choice.kind # "content"
  \/ relayResp.kind = "data" /\ relayResp.choice.kind = "content" /\ Trim(relayResp.choice.content) = <<>>

\* the direct call delivered a completion that is not blank
DirectDelivers(direct) == direct.kind = "content" /\ Trim(direct.content) # <<>>

\* C7: a call of generateMessageDraft that reaches its requests makes the
\* relay request first when the cache credentials are configured and none
\* otherwise; when the cache path fails the direct call is made next and the
\* result of generateMessageDraft is the result of the direct call alone;
\* when the cache path succeeds no direct call is made
C7_CacheFirstThenDirect ==
  (gen.pc # "idle" /\ gen.key # Null /\ gen.calls # <<>>) =>
    /\ CacheConfigured(gen.creds) => gen.calls[1] = "relay"
    /\ ~CacheConfigured(gen.creds) => gen.calls = <<"completion">>
    /\ (CacheConfigured(gen.creds) /\ gen.relay # NoAnswer) =>
         IF CacheFailed(gen.relay)
         THEN /\ gen.calls = <<"relay", "completion">>
              /\ gen.pc \in {"direct", "done"}
              /\ gen.pc = "done" =>
                   /\ gen.direct # NoAnswer
                   /\ gen.result.thrown = ~DirectDelivers(gen.direct)
                   /\ DirectDelivers(gen.direct) =>
                        gen.result.value = Str(Trim(gen.direct.content))
         ELSE /\ gen.calls = <<"relay">>
              /\ gen.pc = "done"
              /\ gen.result = Return(Str(Trim(gen.relay.choice.content)))

\* the relay reported an error, the direct call was made and its draft returned
C7_Witness ==
  /\ gen.pc = "done"
  /\ gen.relay.kind = "error"
  /\ gen.calls = <<"relay", "completion">>
  /\ gen.result = Return(Str(DraftDirect))

\* the direct call was made and failed or delivered a blank completion
DirectFailedOrEmpty ==
  /\ gen.calls # <<>>
  /\ gen.calls[Len(gen.calls)] = "completion"
  /\ gen.direct # NoAnswer
  /\ ~DirectDelivers(gen.direct)

\* the cache path, when there is one, has failed
CacheFailedOrAbsent ==
  \/ ~CacheConfigured(gen.creds)
  \/ gen.relay # NoAnswer /\ CacheFailed(gen.relay)

\* what generateMessageDraft returned is a string that is not empty
ReturnsDraft ==
  /\ ~gen.result.thrown
  /\ gen.result.value.t = "string"
  /\ gen.result.value.s # <<>>

MalformedSummary(info) ==
  /\ info.t = "object"
  /\ ~info.isNewConversation
  /\ info.messages.t = "string"
  /\ info.messages.s # <<>>

C9_EnrichmentNeverFatal ==
  /\ [][\A f \in Fields :
          (Len(runs[f]) = 1 /\ runs[f][1].pc \in {"summarizing", "researching"}) =>
            /\ Len(runs'[f]) = 1
            /\ runs[f][1].pc = "summarizing" =>
                 runs'[f][1].pc \in {"summarizing", "researching"}
            /\ runs[f][1].pc = "researching" =>
                 runs'[f][1].pc \in {"researching", "classifying"}
            /\ outcome'[f] = outcome[f]
            /\ (content'[f] = content[f] \/ UserEdit(f))]_vars
  /\ [](\A f \in Fields : \A i \in 1..Len(runs[f]) :
          LET r == runs[f][i] IN
          /\ "summarizer" \in r.enrich =>
               /\ r.chatHistoryInfo = NullV
               /\ r.pc \in {"researching", "classifying", "generating", "storing"}
          /\ "research" \in r.enrich =>
               /\ r.researchResults \in {NullV, ResearchError}
               /\ r.pc \in {"classifying", "generating", "storing"})

\* both enrichment stages failed and the run has its draft
C9_Witness ==
  \E f \in Fields :
    /\ Len(runs[f]) = 1
    /\ runs[f][1].enrich = {"summarizer", "research"}
    /\ runs[f][1].pc = "storing"
    /\ runs[f][1].message # <<>>

\* C10: categorizeInteraction, once settled, has returned a string: it has not
\* thrown and has not returned null or undefined
C10_AlwaysACategory ==
  cat.pc = "done" => (~cat.result.thrown /\ cat.result.value.t = "string")

\* C11: a call of categorizeInteraction made with no completion-provider key
\* returns "Recruiter inbound" and issues no request; a call whose request
\* was rejected or answered with a non-2xx status returns "Recruiter inbound"
C11_DefaultWithoutKeyOrOnFailure ==
  cat.pc = "done" =>
    /\ cat.key = Null =>
         /\ cat.calls = <<>>
         /\ cat.resp = NoAnswer
         /\ cat.result = Return(Str(<<"R","e","c","r","u","i","t","e","r"," ","i","n","b","o","u","n","d">>))
    /\ (cat.resp # NoAnswer /\ cat.resp.kind \in {"reject", "status"}) =>
         /\ cat.calls = <<"classifier">>
         /\ cat.result = Return(Str(<<"R","e","c","r","u","i","t","e","r"," ","i","n","b","o","u","n","d">>))

\* the classifier answered 500 while a custom category list was configured
C11_Witness ==
  /\ cat.pc = "done"
  /\ cat.resp = [kind |-> "status"]
  /\ cat.categories = Arr(<<Sales, SalesLead>>)
  /\ cat.result = Return(Str(RecruiterInbound))

\* the label the classifier delivered, as categorizeInteraction reads it
LabelOf(c) == Trim(c.resp.content)

\* the categories of the list equal to the label, case-insensitively
ExactMatches(categories, label) ==
  {k \in 1..Len(categories) : toLowerCase(categories[k]) = toLowerCase(label)}

\* the categories of the list contained in the label, case-insensitively
ContainedIn(categories, label) ==
  {k \in 1..Len(categories) : includes(toLowerCase(label), toLowerCase(categories[k]))}

Least(S) == CHOOSE k \in S : \A j \in S : k <= j

\* C12: when the classifier delivered a label and the configured list is not
\* empty, the result is the category equal to the label if there is one,
\* else the first category contained in the label, else the first category
C12_ExactMatchPreferred ==
  (/\ cat.pc = "done"
   /\ cat.resp # NoAnswer
   /\ cat.resp.kind = "content"
   /\ LabelOf(cat) # <<>>
   /\ cat.categories.t = "array"
   /\ cat.categories.items # <<>>) =>
     LET list == cat.categories.items
         exact == ExactMatches(list, LabelOf(cat))
         contained == ContainedIn(list, LabelOf(cat))
     IN cat.result =
          Return(Str(IF exact # {} THEN list[Least(exact)]
                     ELSE IF contained # {} THEN list[Least(contained)]
                     ELSE list[1]))

\* deriving the query failed: no key, or a request that was rejected, answered
\* with a non-2xx status or without a usable query
QueryFailed(r) ==
  \/ r.key = Null
  \/ r.termResp.kind \in {"reject", "status", "badjson", "nochoices", "nonstring"}
  \/ r.termResp.kind = "content" /\ Trim(r.termResp.content) = <<>>

\* the search could not deliver: a credential is missing or the request failed
SearchFailed(r) ==
  \/ r.creds.googleApiKey = None
  \/ r.creds.googleSearchEngineId = None
  \/ r.searchResp.kind \in {"reject", "status", "badjson"}

\* C13: a settled call of researchRecipient for a recipient with a name has
\* not thrown and has run the search step; when deriving the query failed
\* the search term is "{name} - {byline}", or the name alone without a
\* byline; a missing credential or a failed search is in the returned search
\* results as an error field, and without credentials no search request is
\* sent
C13_ResearchNeverThrows ==
  (res.pc = "done" /\ res.name # <<>>) =>
    /\ ~res.result.thrown
    /\ res.steps = <<"search">>
    /\ res.result.value.searchTerm =
         IF QueryFailed(res)
         THEN Str(IF res.byline = <<>> THEN res.name
                  ELSE res.name \o <<" - ">> \o res.byline)
         ELSE Str(Trim(res.termResp.content))
    /\ SearchFailed(res) = ("error" \in DOMAIN res.result.value.searchResults)
    /\ ~SearchFailed(res) = ("success" \in DOMAIN res.result.value.searchResults)
    /\ (res.creds.googleApiKey = None \/ res.creds.googleSearchEngineId = None)
         => "customsearch" \notin {res.calls[k] : k \in 1..Len(res.calls)}

\* the query request was rejected, the search ran with the fallback term and
\* was answered with a non-2xx status
C13_Witness ==
  /\ res.pc = "done"
  /\ res.termResp.kind = "reject"
  /\ res.result.value.searchTerm = Str(<<"Jane", " ", "Doe", " - ", "CEO">>)
  /\ res.searchResp.kind = "status"
  /\ res.calls = <<"completion", "customsearch">>
  /\ "error" \in DOMAIN res.result.value.searchResults

\* C14: with storage configured, a call of cachedOpenAICall that directly
\* follows a call that stored an entry, and that has the same prompt, model,
\* temperature, maxTokens and system prompt (and an API key), returns the
\* stored response with cached: true and asks the endpoints nothing.
C14_RoundTrip ==
  (/\ cacheCall.pc # "idle"
   /\ cacheCall.prior # NullV
   /\ cacheCall.conn
   /\ cacheCall.result # Throw(ErrKeyRequired))
    => (/\ cacheCall.pc = "done"
        /\ cacheCall.result = CacheHit(cacheCall.prior.s)
        /\ cacheCall.calls = <<>>)
C14_Witness ==
  /\ cacheCall.pc = "done"
  /\ cacheCall.prior # NullV
  /\ cacheCall.conn
  /\ cacheCall.result = CacheHit(CompletionOf(cacheCall.request))

IsCacheHit ==
  /\ cacheCall.pc = "done"
  /\ ~cacheCall.result.thrown
  /\ cacheCall.result.value # Undef
  /\ cacheCall.result.value.cached

\* C15: the exact lookup comes first and a hit there returns at once; the
\* embedding request and the semantic scan come only after an exact miss and
\* only with semantic search enabled; the completion request and the cache
\* write come only after a miss on both; a hit asks for no completion and
\* writes nothing.
C15_LookupOrder ==
  cacheCall.pc # "idle" =>
    LET steps == cacheCall.steps
        calls == cacheCall.calls
        exactNow == getFromRedis(cacheCall.cacheKey, cacheCall.conn, langcache_entries)
        semanticNow == semanticSearch(EmbeddingOf(cacheCall.request.prompt),
                                      cacheCall.semanticThreshold, cacheCall.conn,
                                      langcache_entries)
    IN /\ (steps # <<>> \/ calls # <<>>) => steps[1] = "exact"
       /\ \A i \in DOMAIN steps :
            /\ steps[i] = "exact" => i = 1
            /\ steps[i] = "semantic" => i = 2 /\ cacheCall.useSemanticCache
            /\ steps[i] = "completion" => i > 1 /\ steps[i - 1] \in {"exact", "semantic"}
            /\ steps[i] = "store" => i > 1 /\ steps[i - 1] = "completion"
       /\ (\E i \in DOMAIN calls : calls[i] = "embedding") => cacheCall.useSemanticCache
       /\ cacheCall.pc \in {"embedding", "completion", "storing"} => exactNow = NullV
       /\ (/\ cacheCall.pc \in {"completion", "storing"}
           /\ \E i \in DOMAIN steps : steps[i] = "semantic") => semanticNow = NullV
       /\ IsCacheHit =>
            /\ \A i \in DOMAIN calls : calls[i] # "completion"
            /\ \A i \in DOMAIN steps : steps[i] \notin {"completion", "store"}
            /\ steps = <<"exact">> => calls = <<>>
C15_Witness ==
  /\ IsCacheHit
  /\ cacheCall.steps = <<"exact", "semantic">>
  /\ cacheCall.calls = <<"embedding">>
  /\ Len(langcache_entries) = CacheCap

\* C16: the key cachedOpenAICall computes is a function of prompt, model,
\* temperature, maxTokens and system prompt in which each of the five takes
\* part: the same five values give the same key, and a request that differs
\* from the call's in one of them has another key.
C16_EveryComponentInKey ==
  (cacheCall.pc # "idle" /\ cacheCall.steps # <<>>) =>
    /\ cacheCall.cacheKey = CacheKeyOf(cacheCall.request)
    /\ \A request \in Requests :
         request # cacheCall.request => CacheKeyOf(request) # cacheCall.cacheKey

\* C17: after every store the cache holds at most CacheCap entries (1000 in
\* the source), a store deletes at most one entry and only from a cache that
\* is then full, and no entry that stays is older by timestamp than the
\* deleted one.
C17_EvictsOldest ==
  /\ Len(langcache_entries) <= CacheCap
  /\ Cardinality(evicted) <= 1
  /\ evicted # {} => Len(langcache_entries) = CacheCap
  /\ \A e \in evicted : \A i \in DOMAIN langcache_entries :
       e.timestamp <= langcache_entries[i].timestamp
C17_Witness ==
  /\ evicted # {}
  /\ Len(langcache_entries) = CacheCap
  /\ \E e \in evicted :
       /\ langcache_entries[1].timestamp > e.timestamp
       /\ \A i \in 2..CacheCap : langcache_entries[i].timestamp >= e.timestamp

\* C18: with a query and the storage at hand semanticSearch returns, among
\* the entries that have an embedding, the first met of those with the
\* highest cosine similarity to the query when that similarity is at least
\* the threshold, and null when it is not (or when no entry has an
\* embedding).
C18_ReturnsBestAboveThreshold ==
  (search.pc = "done" /\ search.conn /\ search.queryEmbedding # NullV) =>
    LET entries == langcache_entries
        withEmbedding == {i \in DOMAIN entries : entries[i].embedding # NullV}
        sim(i) == Similarity(search.queryEmbedding, entries[i].embedding)
        highest == {i \in withEmbedding :
                      \A j \in withEmbedding : ~FloatGreater(sim(j), sim(i))}
        first == CHOOSE i \in highest : \A j \in highest : i <= j
    IN IF highest # {} /\ FloatAtLeast(sim(first), search.threshold)
       THEN search.result =
              [t |-> "object", entry |-> entries[first], similarity |-> sim(first)]
       ELSE search.result = NullV

\* C19: cosineSimilarity gives the same value for (a, b) and (b, a), gives 0
\* when a vector is missing, when the lengths differ and when a vector has
\* norm 0, and gives a value between -1 and 1 otherwise.
C19_SymmetricZeroAndInRange ==
  cos.pc = "done" =>
    /\ cos.result = cosineSimilarity(cos.vec2, cos.vec1)
    /\ IF \/ cos.vec1 = NullV
          \/ cos.vec2 = NullV
          \/ Len(cos.vec1.items) # Len(cos.vec2.items)
          \/ Dot(cos.vec1.items, cos.vec1.items) = 0
          \/ Dot(cos.vec2.items, cos.vec2.items) = 0
       THEN cos.result = FloatZero
       ELSE /\ FloatAtLeast(FloatOne, cos.result)
            /\ FloatAtLeast(cos.result, [FloatOne EXCEPT !.s = -1])

\* C20: the stored history has at most maxHistory entries (100 in the
\* source); they are the latest stores, each entry written by the store just
\* after the one behind it, the latest in front, with times that never rise
\* from front to back.
C20_LatestFirstAtMostCap ==
  messageHistory # Undef =>
    LET history == messageHistory.items
    IN /\ Len(history) <= maxHistory
       /\ Len(history) >= 1
       /\ Len(history) < maxHistory => history[Len(history)].id = 1
       /\ \A i \in 1..(Len(history) - 1) :
            /\ history[i].id = history[i + 1].id + 1
            /\ history[i].timestamp >= history[i + 1].timestamp
C20_Witness ==
  /\ messageHistory # Undef
  /\ Len(messageHistory.items) = maxHistory
  /\ messageHistory.items[1].id = maxHistory + 1
  /\ messageHistory.items[maxHistory].id = 2
  /\ messageHistory.items[1].timestamp > messageHistory.items[maxHistory].timestamp


\* the only run of a field
TheRun(f) == runs[f][1]
\* list is history with historyEntry put in front and cut to maxHistory
OneMore(list, history, historyEntry) ==
  /\ Len(list) = (IF Len(history) < maxHistory THEN Len(history) + 1 ELSE maxHistory)
  /\ list[1] = historyEntry
  /\ \A k \in 2..Len(list) : list[k] = history[k - 1]
\* the stored list is still the one the run has read
NoWriterSince(run) == run.history = Unshift(HistoryRead, run.history[1])

\* C21: a step changes the history only when it ends a run whose generation
\* succeeded; unless the storage failed or another run wrote the list between
\* this run's read and its write, that step puts exactly one entry, the one
\* with the run's draft, in front of the list, and every run that ends in
\* another way (thrown error in extraction or generation, failed storage)
\* leaves the list as it was; a run that has reached the history step ends
\* with insertMessage called with the draft (never with the error text)
\* whether the storage worked or not
C21_OneEntryPerSuccessfulRun ==
  [][/\ messageHistory' # messageHistory
         => \E f \in RunFields : RunEnds(f) /\ TheRun(f).pc = "saving" /\ outcome'[f].saved
     /\ \A f \in RunFields : RunEnds(f) =>
          /\ IF TheRun(f).pc = "saving" /\ outcome'[f].saved
             THEN /\ TheRun(f).message # <<>>
                  /\ TheRun(f).history[1].message = TheRun(f).message
                  /\ NoWriterSince(TheRun(f))
                       => OneMore(messageHistory'.items, HistoryRead, TheRun(f).history[1])
             ELSE messageHistory' = messageHistory
          /\ TheRun(f).pc \in {"storing", "saving"} =>
               /\ ~outcome'[f].failed
               /\ content'[f] \in {insertMessage(f, TheRun(f).message, domOk).content :
                                     domOk \in BOOLEAN}
               /\ outcome'[f].inserted <=> content'[f] = HtmlContent(TheRun(f).message)]_vars

\* one run has stored its entry and inserted its draft, the other has
\* inserted its draft although its history storage failed
C21_Witness ==
  /\ outcome[1].inserted /\ outcome[1].saved
  /\ outcome[2].inserted /\ ~outcome[2].saved
  /\ Len(HistoryRead) = 1
  /\ HistoryRead[1].message = DraftDirect

\* the run of field f goes from the read of the history to its write
ReadsHistory(f) ==
  /\ Len(runs[f]) = 1 /\ Len(runs'[f]) = 1
  /\ TheRun(f).pc = "storing" /\ runs'[f][1].pc = "saving"

C23_ResolvedOncePerRun ==
  \A f \in Fields : \A i \in 1..Len(runs[f]) : Cardinality(runs[f][i].keys) <= 1

\* C30: when a run has reached step 9 with its draft and the write into the
\* field raises an exception, insertMessage returns false and the field
\* holds a bracket-wrapped error text afterwards
C30_ErrorTextWhenInsertFails ==
  [][\A f \in Fields :
       RunEnds(f) /\ TheRun(f).pc = "storing" /\ ~outcome'[f].inserted =>
         /\ ~insertMessage(f, TheRun(f).message, FALSE).ret
         /\ Len(content'[f]) >= 3
         /\ content'[f][2] = "[Error: "]_vars

\* C29: the in-progress marker of a field is set exactly while a run for it
\* is in flight, only a step of the run itself ends it (nothing cancels it),
\* the step that ends it, draft or thrown error, clears the marker, and when
\* every call of the run settles each run that has begun ends with the
\* marker cleared
C29_RunEndsMarkerCleared ==
  /\ [](\A f \in Fields : f \in messageGenerationInProgress <=> Len(runs[f]) > 0)
  /\ [][\A f \in Fields :
          /\ runs'[f] # runs[f] => (RunStarts(f) \/ RunStep(f))
          /\ RunEnds(f) =>
               /\ f \notin messageGenerationInProgress'
               /\ outcome'[f].ended
               /\ runs'[f] = <<>>]_vars
  /\ \A f \in Fields :
       (f \in messageGenerationInProgress) ~> (f \notin messageGenerationInProgress)

\* a run has ended by a thrown error and its marker is cleared
C29_Witness ==
  \E f \in Fields :
    /\ outcome[f].ended /\ outcome[f].failed
    /\ f \notin messageGenerationInProgress
    /\ runs[f] = <<>>

\* the observer callback runs in this step
Mutation ==
  domObserver \/ \E f \in Fields : dom'[f] # dom[f] /\ Observed(dom[f], dom'[f])

\* C27: at most one scan timer is pending; a mutation leaves exactly one, due
\* Debounce after it, whatever was pending before; a scan timer fires only
\* when it is the timer of the last mutation and exactly Debounce has passed
\* since, and no timer is left then, so a burst of mutations less than
\* Debounce apart is followed by one call of detectAndInsertChatMessages
C27_Debounced ==
  /\ [](Cardinality(chatCheckTimeout.pending) <= 1)
  /\ [][/\ Mutation =>
             (/\ chatCheckTimeout'.pending = {now + Debounce}
              /\ chatCheckTimeout'.handle = {now + Debounce})
        /\ ChatCheckTimer =>
             (/\ chatCheckTimeout.handle = {now}
              /\ chatCheckTimeout'.pending = {})
        /\ startTimers' # startTimers =>
             (ChatCheckTimer \/ \E f \in Fields : StartTimer(f))]_vars

\* a burst has ended with its scan: the timer of an earlier mutation was
\* cancelled, the one of the last mutation has just fired, none is pending
C27_Witness ==
  /\ chatCheckTimeout.cancelled # {}
  /\ chatCheckTimeout.pending = {}
  /\ chatCheckTimeout.handle = {now}

\* the field is visible, empty and not marked processed
Qualifying(f) ==
  dom[f] = "visible" /\ IsEmptyContent(content[f]) /\ f \notin processedInputs

\* the field is put into the document in this step
Appears(f) == dom[f] = "detached" /\ dom'[f] # "detached"

\* C28: the step that puts a field into the document leaves a scan timer
\* pending, and when the mutations pause a qualifying field with a scan timer
\* pending gets its run (the in-progress marker is set) unless it stops
\* qualifying first
C28_NewFieldGetsARun ==
  /\ [][\A f \in Fields : Appears(f) => chatCheckTimeout'.pending # {}]_vars
  /\ \A f \in Fields :
       (Qualifying(f) /\ chatCheckTimeout.pending # {})
         ~> (f \in messageGenerationInProgress \/ ~Qualifying(f))

\* a field that was not in the document when the script was loaded is in it,
\* visible and empty, and its first run is in flight
C28_Witness ==
  \E f \in Fields :
    /\ Qualifying(f)
    /\ f \in messageGenerationInProgress
    /\ startTimers[f] = 0
    /\ outcome[f] = NoOutcome

\* C24: a credentials getter never takes from the settings store a value
\* whose global in secrets.js is set and is not the placeholder: the result
\* holds the global (or the getter returns no credentials at all)
C24_LocalValueWins ==
  credsCall.pc = "done" =>
    \A c \in DOMAIN credsCall.local :
      Provisioned(credsCall.local[c]) =>
        /\ c \notin credsCall.fromStore
        /\ credsCall.result[c] \in {credsCall.local[c], Null}

\* the selectors of the list whose match gives a valid name
ValidSelectors(matches) == {k \in 1..Len(matches) : Valid(matches, k)}
First(ks) == CHOOSE k \in ks : \A other \in ks : k <= other
RecipientDone == ext.pc = "done" /\ ext.extractor = "extractRecipientInfo"

\* C25: the name extractRecipientInfo returns is the text of the first
\* selector of the list, in list order, whose match passes the validation,
\* whatever later selectors match; a name comes from the fallback searches
\* only when no selector of the list gives a valid name.
C25_FirstValidSelectorWins ==
  RecipientDone =>
    LET valid == ValidSelectors(ext.page.names)
    IN IF valid # {}
       THEN /\ ext.value # NullV
            /\ ext.value.usedSelector = nameSelectors[First(valid)]
            /\ ext.value.name = ElementText(ext.page.names[First(valid)])
       ELSE /\ ext.value = extractRecipientInfo([ext.page EXCEPT !.names = BlankPage.names]).value
            /\ ext.value # NullV =>
                 ext.value.usedSelector \in {"broad-search", "viewport-search"}

\* the first selector matches an element that fails the validation, the two
\* later ones match different valid names, and the earlier of the two is returned
C25_Witness ==
  /\ RecipientDone
  /\ ValidSelectors(ext.page.names) = {2, 3}
  /\ ext.page.names[1].kind = "element"
  /\ ElementText(ext.page.names[2]) # ElementText(ext.page.names[3])
  /\ ext.value # NullV
  /\ ext.value.name = ElementText(ext.page.names[2])

\* a call of an extractor returns
ExtractorStep == ext.pc = "idle" /\ ext'.pc = "done"

\* C26: extractRecipientInfo, extractChatHistoryDOM, findChatInputFields and
\* the serialisation of the chat container by the summarizer leave the
\* document, the processed set and the in-progress set as they were.
C26_ExtractorsOnlyRead ==
  [][ExtractorStep =>
       /\ page' = page
       /\ dom' = dom
       /\ content' = content
       /\ processedInputs' = processedInputs
       /\ messageGenerationInProgress' = messageGenerationInProgress]_vars

\* the serialisation has left out nodes that the container still holds
C26_Witness ==
  /\ ext.pc = "done"
  /\ ext.extractor = "extractChatHistoryInfo"
  /\ \E k \in 1..Len(page.chat.children) : page.chat.children[k] \in NonContent
  /\ \A k \in 1..Len(ext.value.s) : ext.value.s[k] \notin NonContent
  /\ processedInputs # {}
  /\ messageGenerationInProgress # {}

\* what a content-editable element shows for html: a line break per <br>
ShownChunk(c) == IF c = "<br>" THEN <<"NL">> ELSE TextChunk(c)
Shown(html) == SeqMap(ShownChunk, html)
\* html is one paragraph without a raw newline
OneParagraph(html) ==
  /\ Len(html) >= 2
  /\ html[1] = "<p>"
  /\ html[Len(html)] = "</p>"
  /\ \A k \in 2..(Len(html) - 1) : html[k] \notin {"NL", "<p>", "</p>"}
\* longer is html with one more character at the end of its paragraph
OneMoreAtEnd(html, longer) ==
  /\ Len(longer) = Len(html) + 1
  /\ SubSeq(longer, 1, Len(html) - 1) = SubSeq(html, 1, Len(html) - 1)
  /\ longer[Len(html)] \notin {"<p>", "</p>", "<br>"}
  /\ longer[Len(longer)] = "</p>"
\* the writes of insertMessage to a field so far are a prefix of the sequence
\* write, perturb, restore, and the timers still to fire are those of the rest
InSequence(w, pending) ==
  /\ Len(w) <= 3
  /\ \A k \in 1..Len(w) : w[k].input
  /\ Len(w) >= 1 => OneParagraph(w[1].html)
  /\ Len(w) >= 2 => OneMoreAtEnd(w[1].html, w[2].html)
  /\ Len(w) = 3 => w[3].html = w[1].html
  /\ pending = CASE Len(w) = 1 -> {[phase |-> "perturb", html |-> w[1].html]}
                  [] Len(w) = 2 -> {[phase |-> "restore", html |-> w[1].html]}
                  [] OTHER -> {}

\* C31: insertMessage writes the content with its newlines as line breaks,
\* then the same content with one more character at its end, then the first
\* content again, in this order, with an input event after each write; when
\* the third write is done the field holds the content of the first write.
C31_WritePerturbRestore ==
  [][\A f \in Fields :
       /\ InSequence(writes'[f], insertTimers'[f])
       /\ writes'[f] # writes[f] =>
            /\ Len(writes'[f]) = Len(writes[f]) + 1
            /\ content'[f] = writes'[f][Len(writes'[f])].html
            /\ Len(writes'[f]) = 3 => content'[f] = writes'[f][1].html]_vars

\* the three writes of a draft with a newline are done; the user has typed
\* between the first and the last of them or not, the field shows the draft
C31_Witness ==
  \E f \in Fields :
    /\ Len(writes[f]) = 3
    /\ content[f] = writes[f][1].html
    /\ Shown(content[f]) = DraftDirect
    /\ \E k \in 1..Len(DraftDirect) : DraftDirect[k] = "NL"

\* the categories of the persisted list
Listed(stored) ==
  IF stored.t = "array" THEN {stored.items[k] : k \in 1..Len(stored.items)} ELSE {}

\* C32: two different names that are both in the category list never share a
\* PreferenceSet: they have different keys in the preferences store, deleting
\* one leaves what is loaded for the other unchanged, and a save stores for
\* every category the values of its own card.
C32_PreferencesNeverShared ==
  [][/\ \A n, m \in Listed(storedCategories') :
          n # m => categoryKey(n) # categoryKey(m)
     /\ \A k \in CardNumbers :
          deleteCategory(k) =>
            \A m \in Listed(storedCategories') :
              userPreferences(m, categoryPreferences')
                = userPreferences(m, categoryPreferences)
     /\ (saveAllPreferences /\ categoryPreferences' # categoryPreferences) =>
          \A k \in 1..Len(popup.cards) :
            popup.cards[k].name \in Listed(storedCategories') =>
              userPreferences(popup.cards[k].name, categoryPreferences').tone
                = popup.cards[k].tone]_vars

\* a persisted list that is missing, corrupted or empty
Unusable(stored) == stored.t # "array" \/ stored.items = <<>>

\* C33: the category list in use is never empty: the popup and the
\* classifier use the four default categories when the persisted list is
\* missing, corrupted or empty, and no add or delete leaves the persisted
\* list empty.
C33_CategoryListNeverEmpty ==
  [][/\ (OpenPopup /\ Unusable(storedCategories)) =>
          popup'.existingCategories = DEFAULT_CATEGORIES
     /\ popup'.open => popup'.existingCategories # <<>> /\ popup'.cards # <<>>
     /\ (contentRead'.pc = "done" /\ contentRead'.what = "categories") =>
          /\ ~Unusable(contentRead'.value)
          /\ Unusable(contentRead'.found) => contentRead'.value = Arr(DEFAULT_CATEGORIES)
     /\ ((\E typed \in NewNames : AddCategory(typed)) \/ (\E k \in CardNumbers : deleteCategory(k))) =>
          ~Unusable(storedCategories')]_vars

\* C34: the runs of different fields are independent: a step of the run of
\* one field (its start, an await that settles, its end with a draft or an
\* error) leaves the run, the processed marker, the in-progress marker and
\* the content of every other field unchanged, and a start timer that finds
\* its own field connected, unmarked and empty starts the run whatever the
\* runs of the other fields are doing.
C34_RunsOfFieldsIndependent ==
  [][\A f \in RunFields :
       /\ runs'[f] # runs[f] =>
            \A g \in RunFields \ {f} :
              /\ runs'[g] = runs[g]
              /\ (g \in processedInputs') = (g \in processedInputs)
              /\ (g \in messageGenerationInProgress') = (g \in messageGenerationInProgress)
              /\ content'[g] = content[g]
       /\ (startTimers'[f] # startTimers[f] /\ TimerGuard(f)) =>
            /\ Len(runs'[f]) = Len(runs[f]) + 1
            /\ f \in messageGenerationInProgress']_vars

\* the runs of both fields are in flight at the same time
C34_Witness ==
  /\ \A f \in RunFields : Len(runs[f]) = 1 /\ f \in messageGenerationInProgress
  /\ processedInputs = {}

\* the answer the paths of the relay call for
OneAnswer(r) ==
  LET a == r.answers[1]
      isData == a.data # Undef
      firstValid == AltValid(r.first)
      after404 == r.first.kind = "status" /\ r.first.textOk /\ r.first.status = 404
      n == Len(r.tried)
  IN /\ Len(r.answers) = 1
     /\ IF isData THEN a.error = Undef /\ HasChoices(a.data)
        ELSE a.error.t = "string" /\ a.error.s # <<>>
     /\ isData <=> (firstValid \/ (after404 /\ \E j \in 1..n : r.tried[j].valid))
     /\ firstValid => a.data = r.first.data
     /\ ~after404 => n = 0
     /\ after404 =>
          /\ n <= Len(r.alternatives)
          /\ \A j \in 1..n : r.tried[j].url = r.alternatives[j]
          /\ \A j \in 1..(n - 1) : ~r.tried[j].valid
          /\ isData => a.data = r.tried[n].data
          /\ ~isData => n = Len(r.alternatives)

\* C35: the relay answers every callLangCache request exactly once, with
\* {data} whose choices array is not empty or with {error}: the data of the
\* first request when it succeeds, after a 404 the data of the first
\* alternative, in the order they are listed, that succeeds, and an error on
\* every other path; the promise of callLangCache resolves with that data or
\* rejects, and every request that was sent settles
C35_RelayAnswersOnce ==
  /\ [](relay.pc \in {"first", "alt"} => relay.answers = <<>>)
  /\ [](relay.pc \in {"answered", "settled"} => OneAnswer(relay))
  /\ [](relay.pc = "settled" =>
          /\ relay.promise.state \in {"resolved", "rejected"}
          /\ relay.promise.state = "resolved" <=> relay.answers[1].data # Undef
          /\ relay.promise.state = "resolved" => relay.promise.value = relay.answers[1].data)
  /\ (relay.pc = "first") ~> (relay.pc = "settled")

\* a 404, two alternatives that fail, and the third one's data resolves the
\* promise
C35_Witness ==
  /\ relay.pc = "settled"
  /\ relay.first.kind = "status"
  /\ Len(relay.tried) = 3
  /\ relay.tried[3].valid
  /\ relay.promise.state = "resolved"
  /\ relay.promise.value = relay.tried[3].data

\* the content of field f is what the user typed, not empty and not what
\* insertMessage wrote last
UserTyped(f) ==
  /\ ~IsEmptyContent(content[f])
  /\ writes[f] = <<>> \/ content[f] # writes[f][Len(writes[f])].html

\* C36: every write of insertMessage and of its two timers, of a draft or of
\* an error text, goes into a field that is empty at that moment or still
\* holds what the last write put there: what the user typed while the run
\* was in flight or between the three writes is never overwritten
C36_TypedContentNeverOverwritten ==
  [][\A f \in Fields : Len(writes'[f]) > Len(writes[f]) => ~UserTyped(f)]_vars

\* C37: in a run whose research stage has extracted a recipient, the recipient
\* given to researchRecipient is the one the run extracted in step 1 and
\* uses for classification, generation and the history record
C37_ResearchOnTheRunsRecipient ==
  \A f \in Fields : \A i \in 1..Len(runs[f]) :
    (runs[f][i].pc = "researching" /\ runs[f][i].researchRecipient # NoRecipient)
      => runs[f][i].researchRecipient = runs[f][i].recipientInfo

\* the partner of the conversation whose form holds field f
PartnerOf(f) == Partners[f]

\* C38: with several chat forms open, the recipient of every run of a field
\* is the partner of the conversation that holds the field
C38_RecipientOfTheFieldsConversation ==
  \A f \in RunFields : \A i \in 1..Len(runs[f]) :
    runs[f][i].recipientInfo # NoRecipient => runs[f][i].recipientInfo = PartnerOf(f)

====
